---- MODULE Spec2Model ----
(***************************************************************************)
(* Model of the flag acquisition and reveal logic of the municipal-flag    *)
(* NFT client: the gated flag detail page (reveal gate, mystery view,      *)
(* acquisition controls and the three acquisition handlers), the list card *)
(* and the bid handler of the auction detail page.                         *)
(*                                                                         *)
(* JavaScript values are records [t, s]: t is the type tag and s the       *)
(* characters of a string, so that undefined, null and strings compare     *)
(* with === as they do in the source.                                      *)
(***************************************************************************)
EXTENDS Integers, Sequences, FiniteSets, TLC

(***************************************************************************)
(* Bounds of the model.                                                    *)
(***************************************************************************)
MaxInterests == 2
MaxOwnerships == 2

(***************************************************************************)
(* JavaScript values.                                                      *)
(***************************************************************************)
JsUndefined == [t |-> "undefined", s |-> <<>>]
JsNull == [t |-> "null", s |-> <<>>]
Str(chars) == [t |-> "string", s |-> chars]

\* String.prototype.toLowerCase, character by character.
ToLowerChar(c) ==
  CASE c = "A" -> "a"
    [] c = "B" -> "b"
    [] c = "C" -> "c"
    [] c = "D" -> "d"
    [] OTHER -> c

toLowerCase(chars) == [i \in 1..Len(chars) |-> ToLowerChar(chars[i])]

\* v?.toLowerCase(): undefined when v is null or undefined.
OptToLowerCase(v) ==
  IF v.t = "string" THEN Str(toLowerCase(v.s)) ELSE JsUndefined

(***************************************************************************)
(* Wallet addresses and the entries of flag.interests / flag.ownerships.   *)
(***************************************************************************)
AddrMixed == <<"A", "b">>
AddrViewer == <<"a", "B">>
AddrOther == <<"c", "d">>

\* The address of the wallet slice: null until a wallet is connected.
ViewerAddresses == {Str(AddrViewer), Str(AddrOther)}

\* An entry {user: {wallet_address}}; user, or its wallet_address, may be absent.
EntryNoUser == [hasUser |-> FALSE, wallet_address |-> JsUndefined]
EntryNoAddress == [hasUser |-> TRUE, wallet_address |-> JsUndefined]
EntryOf(chars) == [hasUser |-> TRUE, wallet_address |-> Str(chars)]

Entries == {EntryNoUser, EntryNoAddress, EntryOf(AddrMixed), EntryOf(AddrOther)}

\* i.user?.wallet_address
UserWalletAddress(e) == IF e.hasUser THEN e.wallet_address ELSE JsUndefined

SeqsUpTo(S, n) == UNION {[1..k -> S] : k \in 0..n}

\* A list field of the flag: present with its items, or absent.
NoList == [present |-> FALSE, items |-> <<>>]
ListOf(items) == [present |-> TRUE, items |-> items]
Lists(n) == {NoList} \cup {ListOf(q) : q \in SeqsUpTo(Entries, n)}

(***************************************************************************)
(* Flags as the server reports them.  nfts_required 0 stands for an absent *)
(* field.                                                                  *)
(***************************************************************************)
FirstStatuses == {"available", "claimed"}
SecondStatuses == {"available", "claimed", "absent"}

Flags ==
  [is_pair_complete : BOOLEAN,
   first_nft_status : FirstStatuses,
   second_nft_status : SecondStatuses,
   interests : Lists(MaxInterests),
   ownerships : Lists(MaxOwnerships),
   nfts_required : {0, 3},
   hasMunicipality : BOOLEAN]

VARIABLES
  currentFlag,      \* flags slice: the fetched flag, {} for null, else {flag}
  loading,          \* flags slice: a fetch of the flag is in flight
  actionLoading,    \* flags slice: a mutating request is in flight
  address,          \* wallet slice: JsNull or the connected address
  isConnected,      \* wallet slice
  isConnecting,     \* wallet slice: connectWallet is in flight
  interestLoading,  \* useState of the detail page
  claimLoading,     \* useState of the detail page
  purchaseLoading,  \* useState of the detail page
  isRevealing,      \* useState of the detail page
  interestPc,       \* handleShowInterest: "idle" or the await it is suspended at
  claimPc,          \* handleClaimFirst: "idle" or the await it is suspended at
  purchasePc,       \* handlePurchaseSecond: "idle" or the await it is suspended at
  run,              \* what the most recently started handler has called and shown
  currentAuction,   \* auctions slice: the fetched auction, {} for null
  auctionsLoading,  \* auctions slice: a fetch of the auction is in flight
  auctionActionLoading, \* auctions slice: a mutating request is in flight
  now,              \* the clock: what new Date() returns
  renderTime,       \* what new Date() returned when the auction page last rendered
  bidAmount,        \* useState of the auction page: the text of the bid input
  bidding,          \* useState of the auction page
  bidPc,            \* handlePlaceBid: "idle" or the await it is suspended at
  bidRun,           \* what the last handlePlaceBid call has dispatched and shown
  admin,            \* admin slice: the state of the slice
  adminInFlight,    \* admin slice: per thunk, the requests started and not settled
  adminLast,        \* admin slice: the type of the action reduced last
  activeTab,        \* useState of the admin page
  userFlags,        \* user slice: the flag ids the profile's owner holds
  userLoading,      \* user slice: fetchUserData is in flight
  userInFlight,     \* user slice: the fetchUserData requests not settled
  activeAuctions,   \* useState of the profile page: flag ids in active auctions
  auctionsInFlight, \* profile page: the loadActiveAuctions calls not settled
  showAuctionModal, \* useState of the profile page
  selectedFlag,     \* useState of the profile page: {} for null, else {flag_id}
  auctionData,      \* useState of the profile page: the starting_price text
  creating,         \* useState of the profile page
  createPc,         \* handleSubmitAuction: "idle" or the await it is suspended at
  createRun         \* what the last handleSubmitAuction call has posted and shown

\* auction.bids and auction.highest_bidder_id of the auction the page shows
VARIABLES bidHistory
\* the buyout of the auction page: local state of the page and position of handleBuyout
VARIABLES buyingOut, buyoutPc
\* the always-revealed flag detail page: wallet signings pending per handler,
\* and persistence thunks of the flags slice in flight
VARIABLES signing, persisting
\* the prices of the flag shown: flag.price, the discounted price of the
\* store and flag.nfts_required; and the last call of web3PurchaseSecond
VARIABLES pricing, purchaseCall
\* the detail pages and their route: per page the id of the route, the id
\* the slice was last asked for, the ids with a response in flight, the id of
\* the entity the slice holds, and the ids answered since the last navigation
VARIABLES routeId, requested, fetching, shown, fulfilledSinceNav

vars ==
  <<currentFlag, loading, actionLoading, address, isConnected, isConnecting,
    interestLoading, claimLoading, purchaseLoading, isRevealing,
    interestPc, claimPc, purchasePc, run,
    currentAuction, auctionsLoading, auctionActionLoading, now, renderTime, bidAmount,
    bidding, bidPc, bidRun, admin, adminInFlight, adminLast, activeTab,
    userFlags, userLoading, userInFlight, activeAuctions, auctionsInFlight,
    showAuctionModal, selectedFlag, auctionData, creating, createPc, createRun,
    bidHistory, buyingOut, buyoutPc, signing, persisting,
    pricing, purchaseCall, routeId, requested, fetching, shown, fulfilledSinceNav>>

walletVars == <<address, isConnected, isConnecting>>
storeVars == <<currentFlag, loading, actionLoading>>
localVars == <<interestLoading, claimLoading, purchaseLoading, isRevealing>>
pcVars == <<interestPc, claimPc, purchasePc>>
flagPageVars == <<storeVars, localVars, pcVars, run>>
adminVars == <<admin, adminInFlight, adminLast, activeTab>>
profileVars ==
  <<userFlags, userLoading, userInFlight, activeAuctions, auctionsInFlight,
    showAuctionModal, selectedFlag, auctionData, creating, createPc, createRun>>

\* The variables of the pages the flag, auction and admin pages never touch.
buyoutVars == <<buyingOut, buyoutPc>>
alwaysRevealedVars == <<signing, persisting>>
priceVars == <<pricing, purchaseCall>>
routeVars == <<routeId, requested, fetching, shown, fulfilledSinceNav>>
laterVars == <<bidHistory, buyoutVars, alwaysRevealedVars, priceVars, routeVars>>
nonBuyoutVars == <<profileVars, bidHistory, alwaysRevealedVars, priceVars, routeVars>>
elsewhereVars == <<profileVars, laterVars>>
auctionVars ==
  <<currentAuction, auctionsLoading, auctionActionLoading, now, bidAmount, bidding,
    bidPc, bidRun>>

flag == CHOOSE f \in currentFlag : TRUE

(***************************************************************************)
(* The gated flag detail page: derived values of one render.               *)
(***************************************************************************)
nftsRequired == IF currentFlag = {} \/ flag.nfts_required = 0 THEN 1 ELSE flag.nfts_required

isActionLoading == actionLoading \/ interestLoading \/ claimLoading \/ purchaseLoading

\* Faulty variant of SomeMatches: the entry's address is compared as stored,
\* only the viewer's address is lower-cased.
SomeMatchesEntryAsStored(list, addr) ==
  /\ list.present
  /\ \E k \in 1..Len(list.items) :
       UserWalletAddress(list.items[k]) = OptToLowerCase(addr)

\* list?.some(x => x.user?.wallet_address?.toLowerCase() === address?.toLowerCase())
SomeMatches(list, addr) ==
  /\ list.present
  /\ \E k \in 1..Len(list.items) :
       OptToLowerCase(UserWalletAddress(list.items[k])) = OptToLowerCase(addr)

\* Faulty variant of isRevealed: the pair-complete rule is missing.
isRevealedWithoutPairRule ==
  IF currentFlag = {} THEN FALSE
  ELSE IF SomeMatches(flag.interests, address) THEN TRUE
  ELSE IF SomeMatches(flag.ownerships, address) THEN TRUE
  ELSE FALSE

isRevealed ==
  IF currentFlag = {} THEN FALSE
  ELSE IF flag.is_pair_complete THEN TRUE
  ELSE IF SomeMatches(flag.interests, address) THEN TRUE
  ELSE IF SomeMatches(flag.ownerships, address) THEN TRUE
  ELSE FALSE

hasUserInterest == SomeMatches(flag.interests, address)

(***************************************************************************)
(* What one render of the gated detail page shows.  A view is named by the *)
(* branch of the component that returns it; RenderedFields is the set of   *)
(* flag fields whose values reach the output, Controls the set of controls *)
(* the output contains.                                                    *)
(***************************************************************************)
PageView ==
  IF loading THEN "loading"
  ELSE IF currentFlag = {} THEN "not-found"
  ELSE IF ~isRevealed THEN "mystery"
  ELSE "revealed"

MunicipalityFields(f) ==
  IF f.hasMunicipality THEN {"municipality.id", "municipality.name"} ELSE {}

NftCountFields == IF nftsRequired > 1 THEN {"nfts_required"} ELSE {}

MysteryViewFields ==
  MunicipalityFields(flag) \cup {"category"} \cup NftCountFields
    \cup {"price", "interest_count"}

RevealedViewFields ==
  MunicipalityFields(flag)
    \cup {"location_type", "image", "name", "category"} \cup NftCountFields
    \cup {"is_pair_complete", "first_nft_status", "price", "interests", "ownerships"}

RenderedFields ==
  CASE PageView = "mystery" -> MysteryViewFields
    [] PageView = "revealed" -> RevealedViewFields
    [] OTHER -> {}

\* Faulty variant of MysteryViewControls: the mystery view also offers claim-first.
MysteryViewControlsWithClaim ==
  IF ~isConnected THEN {"connect-wallet"} ELSE {"show-interest", "claim-first"}

MysteryViewControls ==
  IF ~isConnected THEN {"connect-wallet"} ELSE {"show-interest"}

\* Faulty variant of RevealedViewControls: purchase-second is rendered whenever
\* the second NFT is available, whatever the status of the first.
RevealedViewControlsLoosePurchase ==
  IF flag.is_pair_complete THEN {}
  ELSE
    (IF flag.first_nft_status = "available"
       THEN (IF ~hasUserInterest THEN {"show-interest"} ELSE {}) \cup {"claim-first"}
       ELSE {})
    \cup
    (IF flag.second_nft_status = "available" THEN {"purchase-second"} ELSE {})

RevealedViewControls ==
  IF flag.is_pair_complete THEN {}
  ELSE
    (IF flag.first_nft_status = "available"
       THEN (IF ~hasUserInterest THEN {"show-interest"} ELSE {}) \cup {"claim-first"}
       ELSE {})
    \cup
    (IF flag.first_nft_status = "claimed" /\ flag.second_nft_status = "available"
       THEN {"purchase-second"}
       ELSE {})

Controls ==
  CASE PageView = "mystery" -> MysteryViewControls
    [] PageView = "revealed" -> RevealedViewControls
    [] OTHER -> {}

\* The acquisition buttons a click can reach: each carries
\* disabled={isActionLoading}.
EnabledAcquisitionControls ==
  IF isActionLoading THEN {}
  ELSE Controls \cap {"show-interest", "claim-first", "purchase-second"}

(***************************************************************************)
(* The always-revealed variant of the detail page: the same action block   *)
(* with no reveal gate and its own hasUserInterest.                        *)
(***************************************************************************)
\* flag.interests?.some(i => i.user?.wallet_address === address?.toLowerCase())
hasUserInterestUngated ==
  /\ flag.interests.present
  /\ \E k \in 1..Len(flag.interests.items) :
       UserWalletAddress(flag.interests.items[k]) = OptToLowerCase(address)

UngatedControls ==
  IF loading \/ currentFlag = {} THEN {}
  ELSE IF flag.is_pair_complete THEN {}
  ELSE
    (IF flag.first_nft_status = "available"
       THEN (IF ~hasUserInterestUngated THEN {"show-interest"} ELSE {})
              \cup {"claim-first"}
       ELSE {})
    \cup
    (IF flag.first_nft_status = "claimed" /\ flag.second_nft_status = "available"
       THEN {"purchase-second"}
       ELSE {})

(***************************************************************************)
(* The list card: the flag fields one FlagCard renders.  The card takes    *)
(* the flag and showMunicipality; it reads no wallet state.                *)
(***************************************************************************)
FlagCardFields(f, showMunicipality) ==
  {"image", "name", "location_type", "category",
   "is_pair_complete", "first_nft_status", "price", "interest_count"}
    \cup (IF f.nfts_required > 1 THEN {"nfts_required"} ELSE {})
    \cup (IF showMunicipality /\ f.hasMunicipality THEN {"municipality.name"} ELSE {})

\* What the auction page selects from the store and keeps with useState: it
\* renders again when one of these changes, and at no other time.
AuctionPageInputs ==
  <<currentAuction, auctionsLoading, auctionActionLoading, address, isConnected,
    bidAmount, bidding, buyingOut>>

\* The render that follows a step: new Date() is read again only when the
\* step changed an input of the page.
Rerender ==
  renderTime' = IF AuctionPageInputs' # AuctionPageInputs THEN now ELSE renderTime

(***************************************************************************)
(* Store events: the flags slice and the wallet slice.                     *)
(***************************************************************************)
NoRun ==
  [handler |-> "none", nfts |-> 0, sign |-> "none", persist |-> "none",
   signCalls |-> 0, persistCalls |-> 0, alerts |-> <<>>]

\* The thunks of the admin slice, and those whose reducers drive loading.
AdminThunks ==
  {"authenticate", "seedDemo", "syncIpfs", "fetchStats", "fetchCountries",
   "fetchIpfsStatus", "toggleVisibility"}

LoadingThunks == {"authenticate", "seedDemo", "syncIpfs"}

\* null is the empty set, a value v is {v}; countries is [] or a list.
initialState ==
  [authenticated |-> FALSE, adminKey |-> {}, stats |-> {}, countries |-> {},
   ipfsStatus |-> {}, loading |-> FALSE, message |-> {}, error |-> {}]

\* The record of a handlePlaceBid call before any call was made.  Prices are
\* decimal texts, the sequence of the digits after "0.": <<0, 8>> is the text
\* "0.08", and <<>> is the empty text (or an absent price).
NoBidRun ==
  [outcome |-> "none", amount |-> 0, min_price |-> <<>>, current_highest_bid |-> <<>>,
   minBidAmount |-> 0, walletAddress |-> JsNull, seller |-> EntryNoUser,
   placeBidCalls |-> 0, alerts |-> <<>>]

\* The record of a handleSubmitAuction call before any call was made.
DetailPages == {"flag", "auction"}
RouteIds == {"A", "B"}

\* The handlers of the always-revealed page that await the wallet.
SigningHandlers == {"claimFirst", "purchaseSecond"}

NoCreateRun == [outcome |-> "none", postCalls |-> 0, refetches |-> 0, alerts |-> <<>>]

InitWallet ==
  /\ address = JsNull
  /\ isConnected = FALSE
  /\ isConnecting = FALSE

\* The flag detail page as mounted: its fetch is in flight.
InitFlagPage ==
  /\ currentFlag = {}
  /\ loading = TRUE
  /\ actionLoading = FALSE
  /\ interestLoading = FALSE
  /\ claimLoading = FALSE
  /\ purchaseLoading = FALSE
  /\ isRevealing = FALSE
  /\ interestPc = "idle"
  /\ claimPc = "idle"
  /\ purchasePc = "idle"
  /\ run = NoRun
  /\ signing = [h \in SigningHandlers |-> 0]
  /\ persisting = 0
  /\ pricing = {}
  /\ purchaseCall = {}

\* The auction detail page as mounted: its fetch is in flight.
InitAuctionPage ==
  /\ currentAuction = {}
  /\ auctionsLoading = TRUE
  /\ auctionActionLoading = FALSE
  /\ now = 0
  /\ renderTime = 0
  /\ bidAmount = <<>>
  /\ bidding = FALSE
  /\ bidPc = "idle"
  /\ bidRun = NoBidRun
  /\ bidHistory = {}
  /\ buyingOut = FALSE
  /\ buyoutPc = "idle"

InitAdmin ==
  /\ admin = initialState
  /\ adminInFlight = [t \in AdminThunks |-> 0]
  /\ adminLast = "@@INIT"
  /\ activeTab = "Stats"

\* The profile page as mounted with an address in its URL: the effect has
\* dispatched fetchUserData and called loadActiveAuctions.
InitProfile ==
  /\ userFlags = <<>>
  /\ userLoading = TRUE
  /\ userInFlight = 1
  /\ activeAuctions = <<>>
  /\ auctionsInFlight = 1
  /\ showAuctionModal = FALSE
  /\ selectedFlag = {}
  /\ auctionData = <<>>
  /\ creating = FALSE
  /\ createPc = "idle"
  /\ createRun = NoCreateRun

\* Both detail pages mounted on the route of entity "A": the effect has
\* dispatched the fetch of "A".
InitRoute ==
  /\ routeId = [page \in DetailPages |-> "A"]
  /\ requested = [page \in DetailPages |-> "A"]
  /\ fetching = [page \in DetailPages |-> {"A"}]
  /\ shown = [page \in DetailPages |-> {}]
  /\ fulfilledSinceNav = [page \in DetailPages |-> {}]

Init ==
  InitWallet /\ InitFlagPage /\ InitAuctionPage /\ InitAdmin /\ InitProfile /\ InitRoute

FetchFlagFulfilled(f) ==
  /\ loading
  /\ currentFlag' = {f}
  /\ loading' = FALSE
  /\ UNCHANGED <<elsewhereVars, adminVars, renderTime, auctionVars, actionLoading, walletVars, localVars, pcVars, run>>

FetchFlagRejected ==
  /\ loading
  /\ loading' = FALSE
  /\ UNCHANGED <<elsewhereVars, adminVars, renderTime, auctionVars, currentFlag, actionLoading, walletVars, localVars, pcVars, run>>

\* connectWallet dispatched from the header or from the mystery view's button.
ConnectWallet ==
  /\ ~isConnected
  /\ ~isConnecting
  /\ isConnecting' = TRUE
  /\ UNCHANGED <<elsewhereVars, adminVars, auctionVars, address, isConnected, storeVars, localVars, pcVars, run>>
  /\ Rerender

ConnectWalletFulfilled(a) ==
  /\ isConnecting
  /\ address' = a
  /\ isConnected' = TRUE
  /\ isConnecting' = FALSE
  /\ UNCHANGED <<elsewhereVars, adminVars, auctionVars, storeVars, localVars, pcVars, run>>
  /\ Rerender

ConnectWalletRejected ==
  /\ isConnecting
  /\ isConnecting' = FALSE
  /\ UNCHANGED <<elsewhereVars, adminVars, auctionVars, address, isConnected, storeVars, localVars, pcVars, run>>
  /\ Rerender

Disconnect ==
  /\ isConnected
  /\ address' = JsNull
  /\ isConnected' = FALSE
  /\ UNCHANGED <<elsewhereVars, adminVars, auctionVars, isConnecting, storeVars, localVars, pcVars, run>>
  /\ Rerender

WalletEvent ==
  \/ ConnectWallet
  \/ \E a \in ViewerAddresses : ConnectWalletFulfilled(a)
  \/ ConnectWalletRejected
  \/ Disconnect

(***************************************************************************)
(* The reveal gate and the views over every flag the server can report:    *)
(* the page is mounted, the flag arrives, the wallet connects and          *)
(* disconnects.                                                            *)
(***************************************************************************)
GateFetch == loading /\ \E f \in Flags : FetchFlagFulfilled(f)

NextGate ==
  \/ GateFetch
  \/ FetchFlagRejected
  \/ WalletEvent

SpecGate == Init /\ [][NextGate]_vars

(***************************************************************************)
(* The acquisition handlers of the gated detail page.  Each handler is     *)
(* split at its awaits.  run records what the handler started last has     *)
(* called and shown: the wallet signing calls and persistence dispatches   *)
(* it issued, how each settled, and its alerts in order.                   *)
(***************************************************************************)
\* What an awaited call throws: an Error object with its message, or the
\* string payload that unwrap() rethrows for a rejectWithValue rejection.
Thrown ==
  {[kind |-> "Error", message |-> "User rejected the request"],
   [kind |-> "Error", message |-> ""],
   [kind |-> "string", message |-> "Request failed"]}

\* err.message || fallback
MessageOr(err, fallback) ==
  IF err.kind = "Error" /\ err.message # "" THEN err.message ELSE fallback

Alert(text, n) == [text |-> text, n |-> n]

\* The flags the server reports while the handlers run: every status
\* combination, with interest and ownership lists that match or do not
\* match each viewer.
FlowFlags ==
  [is_pair_complete : BOOLEAN,
   first_nft_status : FirstStatuses,
   second_nft_status : SecondStatuses,
   interests : {ListOf(<<>>), ListOf(<<EntryOf(AddrMixed)>>), ListOf(<<EntryNoUser>>)},
   ownerships : {ListOf(<<>>), ListOf(<<EntryOf(AddrOther)>>)},
   nfts_required : {0, 3},
   hasMunicipality : {TRUE}]

\* The flag the flags slice holds once a mutating request is fulfilled: the
\* one it held, or the flag the server answered with.
FlagAfterFulfilled == {currentFlag} \cup {{f} : f \in FlowFlags}

StartRun(h) ==
  [handler |-> h, nfts |-> nftsRequired, sign |-> "none", persist |-> "none",
   signCalls |-> 0, persistCalls |-> 0, alerts |-> <<>>]

handleShowInterest ==
  /\ "show-interest" \in Controls
  /\ ~isActionLoading
  /\ IF ~isConnected
       THEN /\ isConnecting' = TRUE
            /\ UNCHANGED <<elsewhereVars, adminVars, renderTime, auctionVars, address, isConnected, storeVars, localVars, pcVars, run>>
       ELSE /\ interestLoading' = TRUE
            /\ actionLoading' = TRUE
            /\ interestPc' = "awaitRegister"
            /\ run' = [StartRun("showInterest") EXCEPT !.persist = "pending",
                                                      !.persistCalls = 1]
            /\ UNCHANGED <<elsewhereVars, adminVars, renderTime, auctionVars, currentFlag, loading, walletVars, claimLoading,
                           purchaseLoading, isRevealing, claimPc, purchasePc>>

RegisterInterestFulfilled ==
  /\ interestPc = "awaitRegister"
  /\ currentFlag' \in FlagAfterFulfilled
  /\ actionLoading' = FALSE
  /\ isRevealing' = TRUE
  /\ interestLoading' = FALSE
  /\ interestPc' = "idle"
  /\ run' = [run EXCEPT !.persist = "fulfilled"]
  /\ UNCHANGED <<elsewhereVars, adminVars, renderTime, auctionVars, loading, walletVars, claimLoading, purchaseLoading, claimPc, purchasePc>>

RegisterInterestRejected(err) ==
  /\ interestPc = "awaitRegister"
  /\ actionLoading' = FALSE
  /\ interestLoading' = FALSE
  /\ interestPc' = "idle"
  /\ run' = [run EXCEPT !.persist = "rejected",
                        !.alerts = Append(@, Alert(MessageOr(err, "Failed to register interest"), 0))]
  /\ UNCHANGED <<elsewhereVars, adminVars, renderTime, auctionVars, currentFlag, loading, walletVars, claimLoading, purchaseLoading,
                 isRevealing, claimPc, purchasePc>>

\* setTimeout(() => setIsRevealing(false), 1000)
RevealTimer ==
  /\ isRevealing
  /\ isRevealing' = FALSE
  /\ UNCHANGED <<elsewhereVars, adminVars, renderTime, auctionVars, storeVars, walletVars, interestLoading, claimLoading, purchaseLoading,
                 pcVars, run>>

\* Faulty variant of handleClaimFirst: the handler does not set its local
\* loading flag, so only the slice's actionLoading covers the run.
handleClaimFirstNoLocalFlag ==
  /\ "claim-first" \in Controls
  /\ ~isActionLoading
  /\ IF ~isConnected
       THEN /\ isConnecting' = TRUE
            /\ UNCHANGED <<elsewhereVars, adminVars, renderTime, auctionVars, address, isConnected, storeVars, localVars, pcVars, run>>
       ELSE /\ claimLoading' = claimLoading
            /\ claimPc' = "awaitSign"
            /\ run' = [StartRun("claimFirst") EXCEPT !.sign = "pending", !.signCalls = 1]
            /\ UNCHANGED <<elsewhereVars, adminVars, renderTime, auctionVars, storeVars, walletVars, interestLoading, purchaseLoading,
                           isRevealing, interestPc, purchasePc>>

handleClaimFirst ==
  /\ "claim-first" \in Controls
  /\ ~isActionLoading
  /\ IF ~isConnected
       THEN /\ isConnecting' = TRUE
            /\ UNCHANGED <<elsewhereVars, adminVars, renderTime, auctionVars, address, isConnected, storeVars, localVars, pcVars, run>>
       ELSE /\ claimLoading' = TRUE
            /\ claimPc' = "awaitSign"
            /\ run' = [StartRun("claimFirst") EXCEPT !.sign = "pending", !.signCalls = 1]
            /\ UNCHANGED <<elsewhereVars, adminVars, renderTime, auctionVars, storeVars, walletVars, interestLoading, purchaseLoading,
                           isRevealing, interestPc, purchasePc>>

\* web3ClaimFirst resolved: the persistence thunk is dispatched.
ClaimSignResolved ==
  /\ claimPc = "awaitSign"
  /\ claimPc' = "awaitPersist"
  /\ actionLoading' = TRUE
  /\ run' = [run EXCEPT !.sign = "resolved", !.persist = "pending",
                        !.persistCalls = @ + 1]
  /\ UNCHANGED <<elsewhereVars, adminVars, renderTime, auctionVars, currentFlag, loading, walletVars, localVars, interestPc, purchasePc>>

\* Faulty variant of ClaimSignRejected: the rejection is reported and the
\* persistence thunk is dispatched all the same.
ClaimSignRejectedThenPersist(err) ==
  /\ claimPc = "awaitSign"
  /\ claimPc' = "awaitPersist"
  /\ actionLoading' = TRUE
  /\ run' = [run EXCEPT !.sign = "rejected", !.persist = "pending",
                        !.persistCalls = @ + 1,
                        !.alerts = Append(@, Alert(MessageOr(err, "Transaction error"), 0))]
  /\ UNCHANGED <<elsewhereVars, adminVars, renderTime, auctionVars, currentFlag, loading, walletVars, localVars, interestPc,
                 purchasePc>>

\* web3ClaimFirst rejected: catch, then finally.
ClaimSignRejected(err) ==
  /\ claimPc = "awaitSign"
  /\ claimPc' = "idle"
  /\ claimLoading' = FALSE
  /\ run' = [run EXCEPT !.sign = "rejected",
                        !.alerts = Append(@, Alert(MessageOr(err, "Transaction error"), 0))]
  /\ UNCHANGED <<elsewhereVars, adminVars, renderTime, auctionVars, storeVars, walletVars, interestLoading, purchaseLoading, isRevealing,
                 interestPc, purchasePc>>

ClaimPersistFulfilled ==
  /\ claimPc = "awaitPersist"
  /\ claimPc' = "idle"
  /\ currentFlag' \in FlagAfterFulfilled
  /\ actionLoading' = FALSE
  /\ claimLoading' = FALSE
  /\ run' = [run EXCEPT !.persist = "fulfilled",
                        !.alerts = Append(@,
                           IF run.nfts > 1
                             THEN Alert("Successfully claimed ${nftsRequired} first NFTs!", run.nfts)
                             ELSE Alert("First NFT claimed successfully!", 0))]
  /\ UNCHANGED <<elsewhereVars, adminVars, renderTime, auctionVars, loading, walletVars, interestLoading, purchaseLoading, isRevealing,
                 interestPc, purchasePc>>

\* Faulty variant of ClaimPersistRejected: the rejected persistence thunk is
\* dispatched again.
ClaimPersistRejectedRetries(err) ==
  /\ claimPc = "awaitPersist"
  /\ run.persistCalls < 2
  /\ run' = [run EXCEPT !.persist = "rejected", !.persistCalls = @ + 1,
                        !.alerts = Append(@, Alert(MessageOr(err, "Transaction error"), 0))]
  /\ UNCHANGED <<elsewhereVars, adminVars, renderTime, auctionVars, storeVars, walletVars, localVars, pcVars>>

ClaimPersistRejected(err) ==
  /\ claimPc = "awaitPersist"
  /\ claimPc' = "idle"
  /\ actionLoading' = FALSE
  /\ claimLoading' = FALSE
  /\ run' = [run EXCEPT !.persist = "rejected",
                        !.alerts = Append(@, Alert(MessageOr(err, "Transaction error"), 0))]
  /\ UNCHANGED <<elsewhereVars, adminVars, renderTime, auctionVars, currentFlag, loading, walletVars, interestLoading, purchaseLoading,
                 isRevealing, interestPc, purchasePc>>

\* The amount handed to web3PurchaseSecond is an argument of the call and
\* no part of the page's state; run counts the call.
handlePurchaseSecond ==
  /\ "purchase-second" \in Controls
  /\ ~isActionLoading
  /\ IF ~isConnected
       THEN /\ isConnecting' = TRUE
            /\ UNCHANGED <<elsewhereVars, adminVars, renderTime, auctionVars, address, isConnected, storeVars, localVars, pcVars, run>>
       ELSE /\ purchaseLoading' = TRUE
            /\ purchasePc' = "awaitSign"
            /\ run' = [StartRun("purchaseSecond") EXCEPT !.sign = "pending", !.signCalls = 1]
            /\ UNCHANGED <<elsewhereVars, adminVars, renderTime, auctionVars, storeVars, walletVars, interestLoading, claimLoading,
                           isRevealing, interestPc, claimPc>>

\* web3PurchaseSecond resolved: the persistence thunk is dispatched.
PurchaseSignResolved ==
  /\ purchasePc = "awaitSign"
  /\ purchasePc' = "awaitPersist"
  /\ actionLoading' = TRUE
  /\ run' = [run EXCEPT !.sign = "resolved", !.persist = "pending",
                        !.persistCalls = @ + 1]
  /\ UNCHANGED <<elsewhereVars, adminVars, renderTime, auctionVars, currentFlag, loading, walletVars, localVars, interestPc, claimPc>>

\* web3PurchaseSecond rejected: catch, then finally.
PurchaseSignRejected(err) ==
  /\ purchasePc = "awaitSign"
  /\ purchasePc' = "idle"
  /\ purchaseLoading' = FALSE
  /\ run' = [run EXCEPT !.sign = "rejected",
                        !.alerts = Append(@, Alert(MessageOr(err, "Transaction error"), 0))]
  /\ UNCHANGED <<elsewhereVars, adminVars, renderTime, auctionVars, storeVars, walletVars, interestLoading, claimLoading, isRevealing,
                 interestPc, claimPc>>

PurchasePersistFulfilled ==
  /\ purchasePc = "awaitPersist"
  /\ purchasePc' = "idle"
  /\ currentFlag' \in FlagAfterFulfilled
  /\ actionLoading' = FALSE
  /\ purchaseLoading' = FALSE
  /\ run' = [run EXCEPT !.persist = "fulfilled",
                        !.alerts = Append(@,
                           IF run.nfts > 1
                             THEN Alert("Successfully purchased ${nftsRequired} second NFTs! Pair complete!", run.nfts)
                             ELSE Alert("Second NFT purchased! Pair complete!", 0))]
  /\ UNCHANGED <<elsewhereVars, adminVars, renderTime, auctionVars, loading, walletVars, interestLoading, claimLoading, isRevealing,
                 interestPc, claimPc>>

PurchasePersistRejected(err) ==
  /\ purchasePc = "awaitPersist"
  /\ purchasePc' = "idle"
  /\ actionLoading' = FALSE
  /\ purchaseLoading' = FALSE
  /\ run' = [run EXCEPT !.persist = "rejected",
                        !.alerts = Append(@, Alert(MessageOr(err, "Transaction error"), 0))]
  /\ UNCHANGED <<elsewhereVars, adminVars, renderTime, auctionVars, currentFlag, loading, walletVars, interestLoading, claimLoading,
                 isRevealing, interestPc, claimPc>>

FlowFetch == loading /\ \E f \in FlowFlags : FetchFlagFulfilled(f)

Next ==
  \/ FlowFetch
  \/ FetchFlagRejected
  \/ WalletEvent
  \/ handleShowInterest
  \/ RegisterInterestFulfilled
  \/ \E err \in Thrown : RegisterInterestRejected(err)
  \/ RevealTimer
  \/ handleClaimFirst
  \/ ClaimSignResolved
  \/ \E err \in Thrown : ClaimSignRejected(err)
  \/ ClaimPersistFulfilled
  \/ \E err \in Thrown : ClaimPersistRejected(err)
  \/ handlePurchaseSecond
  \/ PurchaseSignResolved
  \/ \E err \in Thrown : PurchaseSignRejected(err)
  \/ PurchasePersistFulfilled
  \/ \E err \in Thrown : PurchasePersistRejected(err)

Spec == Init /\ [][Next]_vars

(***************************************************************************)
(* The auction detail page: the bid form and handlePlaceBid.  Amounts are  *)
(* counted in thousandths of POL, the step of the bid input.               *)
(***************************************************************************)
BidDecimals == 3
MaxNow == 3

RECURSIVE Pow10(_)
Pow10(n) == IF n = 0 THEN 1 ELSE 10 * Pow10(n - 1)

RECURSIVE DigitsValue(_, _)
DigitsValue(text, k) ==
  IF k > Len(text) THEN 0
  ELSE text[k] * Pow10(BidDecimals - k) + DigitsValue(text, k + 1)

\* parseFloat of a decimal text, in thousandths; the empty text parses to NaN.
IsNaN(text) == text = <<>>
parseFloat(text) == DigitsValue(text, 1)

\* parseFloat(a) < parseFloat(b) and parseFloat(a) <= 0: false on NaN.
FloatLess(a, b) == ~IsNaN(a) /\ ~IsNaN(b) /\ parseFloat(a) < parseFloat(b)
FloatNotPositive(a) == ~IsNaN(a) /\ parseFloat(a) <= 0

BidTexts ==
  {<<>>, <<0>>, <<0, 4, 9>>, <<0, 5>>, <<0, 8>>, <<0, 8, 0>>, <<0, 8, 1>>, <<1>>}

Auctions ==
  [status : {"active", "closed", "cancelled"},
   ends_at : {2},
   min_price : {<<0, 5>>},
   starting_price : {<<0, 5>>},
   current_highest_bid : {<<>>, <<0, 8>>},
   buyout_price : {<<>>, <<2>>},
   seller : {EntryNoUser, EntryOf(AddrMixed)}]

auction == CHOOSE a \in currentAuction : TRUE

\* new Date(auction.ends_at) - new Date(), computed while rendering.
timeRemaining == auction.ends_at - renderTime
isEnded == timeRemaining <= 0 \/ auction.status # "active"
\* Faulty variant of isSeller: the two addresses are compared as stored.
isSellerAsStored == address = UserWalletAddress(auction.seller)

isSeller == OptToLowerCase(address) = OptToLowerCase(UserWalletAddress(auction.seller))

\* auction.current_highest_bid || auction.starting_price: an absent or empty
\* price is falsy.
currentHighestBid ==
  IF auction.current_highest_bid # <<>> THEN auction.current_highest_bid
  ELSE auction.starting_price

\* Math.max(parseFloat(min_price), parseFloat(currentHighestBid) + 0.001), in
\* thousandths: the min attribute of the bid input and the "Minimum bid" text.
\* The sum is the exact one; the double of the code is never below it.
minBidAmount ==
  IF parseFloat(auction.min_price) >= parseFloat(currentHighestBid) + 1
    THEN parseFloat(auction.min_price)
  ELSE parseFloat(currentHighestBid) + 1

AuctionPageView ==
  IF auctionsLoading /\ currentAuction = {} THEN "loading"
  ELSE IF currentAuction = {} THEN "not-found"
  ELSE "detail"

\* The buyout card and the bid card of the detail view.
BuyoutBlockRendered ==
  /\ AuctionPageView = "detail"
  /\ ~isEnded
  /\ auction.status = "active"
  /\ auction.buyout_price # <<>>
  /\ ~isSeller

BidBlockRendered ==
  /\ AuctionPageView = "detail"
  /\ ~isEnded
  /\ auction.status = "active"

\* Faulty variant of AuctionControls: the bid card makes no difference
\* between the seller and any other connected viewer.
AuctionControlsSellerBids ==
  (IF ~BuyoutBlockRendered THEN {}
   ELSE IF ~isConnected THEN {"connect-to-buyout"} ELSE {"buyout"})
  \cup
  (IF ~BidBlockRendered THEN {}
   ELSE IF ~isConnected THEN {"connect-to-bid"}
   ELSE {"bid-form"})

\* The buttons and forms of the two cards.
AuctionControls ==
  (IF ~BuyoutBlockRendered THEN {}
   ELSE IF ~isConnected THEN {"connect-to-buyout"} ELSE {"buyout"})
  \cup
  (IF ~BidBlockRendered THEN {}
   ELSE IF ~isConnected THEN {"connect-to-bid"}
   ELSE IF isSeller THEN {}
   ELSE {"bid-form"})

\* The notices of the detail view.
AuctionNotices ==
  (IF BidBlockRendered /\ isConnected /\ isSeller THEN {"own-auction"} ELSE {})
  \cup
  (IF AuctionPageView = "detail" /\ isEnded /\ auction.status = "active"
     THEN {"awaiting-close"} ELSE {})

\* The form with the bid input and its submit button is part of the output.
BidFormRendered == "bid-form" \in AuctionControls

FetchAuctionFulfilled(a) ==
  /\ auctionsLoading
  /\ currentAuction' = {a}
  /\ auctionsLoading' = FALSE
  /\ UNCHANGED <<elsewhereVars, adminVars, flagPageVars, walletVars, auctionActionLoading, now, bidAmount,
                 bidding, bidPc, bidRun>>
  /\ Rerender

FetchAuctionRejected ==
  /\ auctionsLoading
  /\ auctionsLoading' = FALSE
  /\ UNCHANGED <<elsewhereVars, adminVars, flagPageVars, walletVars, currentAuction, auctionActionLoading, now,
                 bidAmount, bidding, bidPc, bidRun>>
  /\ Rerender

Tick ==
  /\ now < MaxNow
  /\ now' = now + 1
  /\ UNCHANGED <<elsewhereVars, adminVars, flagPageVars, walletVars, currentAuction, auctionsLoading,
                 auctionActionLoading, renderTime, bidAmount, bidding, bidPc, bidRun>>

\* onChange of the bid input.
SetBidAmount(text) ==
  /\ BidFormRendered
  /\ bidAmount' = text
  /\ UNCHANGED <<elsewhereVars, adminVars, flagPageVars, walletVars, currentAuction, auctionsLoading,
                 auctionActionLoading, now, bidding, bidPc, bidRun>>
  /\ Rerender

StartBidRun ==
  [outcome |-> "invalid", amount |-> 0, min_price |-> auction.min_price,
   current_highest_bid |-> auction.current_highest_bid,
   minBidAmount |-> minBidAmount,
   walletAddress |-> address, seller |-> auction.seller,
   placeBidCalls |-> 0, alerts |-> <<>>]

\* Faulty variant of handlePlaceBid: setBidding(true) comes before the
\* check of the minimum price, and the rejection returns without undoing it.
handlePlaceBidFlagsFirst ==
  /\ BidFormRendered
  /\ ~(bidding \/ auctionActionLoading)
  /\ IF ~isConnected
       THEN /\ bidRun' = [StartBidRun EXCEPT
                            !.alerts = <<Alert("Please connect your wallet first", 0)>>]
            /\ UNCHANGED <<bidding, bidPc, auctionActionLoading>>
     ELSE IF bidAmount = <<>> \/ FloatNotPositive(bidAmount)
       THEN /\ bidRun' = [StartBidRun EXCEPT
                            !.alerts = <<Alert("Please enter a valid bid amount", 0)>>]
            /\ UNCHANGED <<bidding, bidPc, auctionActionLoading>>
     ELSE IF FloatLess(bidAmount, auction.min_price)
       THEN /\ bidRun' = [StartBidRun EXCEPT
                            !.alerts = <<Alert("Bid must be at least ${min_price} POL (minimum price)",
                                               parseFloat(auction.min_price))>>]
            /\ bidding' = TRUE
            /\ UNCHANGED <<bidPc, auctionActionLoading>>
     ELSE /\ bidding' = TRUE
          /\ auctionActionLoading' = TRUE
          /\ bidPc' = "awaitPlaceBid"
          /\ bidRun' = [StartBidRun EXCEPT !.outcome = "pending",
                                           !.amount = parseFloat(bidAmount),
                                           !.placeBidCalls = 1]
  /\ UNCHANGED <<elsewhereVars, adminVars, flagPageVars, walletVars, currentAuction, auctionsLoading, now, bidAmount>>
  /\ Rerender

handlePlaceBid ==
  /\ BidFormRendered
  /\ ~(bidding \/ auctionActionLoading)
  /\ IF ~isConnected
       THEN /\ bidRun' = [StartBidRun EXCEPT
                            !.alerts = <<Alert("Please connect your wallet first", 0)>>]
            /\ UNCHANGED <<bidding, bidPc, auctionActionLoading>>
     ELSE IF bidAmount = <<>> \/ FloatNotPositive(bidAmount)
       THEN /\ bidRun' = [StartBidRun EXCEPT
                            !.alerts = <<Alert("Please enter a valid bid amount", 0)>>]
            /\ UNCHANGED <<bidding, bidPc, auctionActionLoading>>
     ELSE IF FloatLess(bidAmount, auction.min_price)
       THEN /\ bidRun' = [StartBidRun EXCEPT
                            !.alerts = <<Alert("Bid must be at least ${min_price} POL (minimum price)",
                                               parseFloat(auction.min_price))>>]
            /\ UNCHANGED <<bidding, bidPc, auctionActionLoading>>
     ELSE /\ bidding' = TRUE
          /\ auctionActionLoading' = TRUE
          /\ bidPc' = "awaitPlaceBid"
          /\ bidRun' = [StartBidRun EXCEPT !.outcome = "pending",
                                           !.amount = parseFloat(bidAmount),
                                           !.placeBidCalls = 1]
  /\ UNCHANGED <<elsewhereVars, adminVars, flagPageVars, walletVars, currentAuction, auctionsLoading, now, bidAmount>>
  /\ Rerender

\* The auction the auctions slice holds once placeBid is fulfilled.
AuctionAfterFulfilled == {currentAuction} \cup {{a} : a \in Auctions}

PlaceBidFulfilled ==
  /\ bidPc = "awaitPlaceBid"
  /\ bidPc' = "idle"
  /\ currentAuction' \in AuctionAfterFulfilled
  /\ auctionActionLoading' = FALSE
  /\ bidAmount' = <<>>
  /\ bidding' = FALSE
  /\ bidRun' = [bidRun EXCEPT !.outcome = "fulfilled",
                              !.alerts = Append(@, Alert("Bid placed successfully!", 0))]
  /\ UNCHANGED <<elsewhereVars, adminVars, flagPageVars, walletVars, auctionsLoading, now>>
  /\ Rerender

\* alert(error || 'Failed to place bid')
PlaceBidRejected(err) ==
  /\ bidPc = "awaitPlaceBid"
  /\ bidPc' = "idle"
  /\ auctionActionLoading' = FALSE
  /\ bidding' = FALSE
  /\ bidRun' = [bidRun EXCEPT !.outcome = "rejected",
                              !.alerts = Append(@,
                                 Alert(IF err.kind = "string" /\ err.message = ""
                                         THEN "Failed to place bid" ELSE err.message, 0))]
  /\ UNCHANGED <<elsewhereVars, adminVars, flagPageVars, walletVars, currentAuction, auctionsLoading, now, bidAmount>>
  /\ Rerender

\* The Buyout button: rendered for a connected viewer, disabled while
\* buyingOut or the action of the slice is loading.  window.confirm may be
\* declined; buyoutAuction.pending of the slice sets its actionLoading.
handleBuyout(confirmed) ==
  /\ BuyoutBlockRendered
  /\ isConnected
  /\ ~(buyingOut \/ auctionActionLoading)
  /\ IF confirmed
       THEN /\ buyingOut' = TRUE
            /\ auctionActionLoading' = TRUE
            /\ buyoutPc' = "awaitBuyout"
     ELSE UNCHANGED <<buyingOut, auctionActionLoading, buyoutPc>>
  /\ UNCHANGED <<nonBuyoutVars, adminVars, flagPageVars, walletVars,
                 currentAuction, auctionsLoading, now, bidAmount, bidding, bidPc, bidRun>>
  /\ Rerender

\* Faulty variant of the rejection: the catch branch alone, without the
\* finally block.
BuyoutRejectedWithoutFinally ==
  /\ buyoutPc = "awaitBuyout"
  /\ buyoutPc' = "idle"
  /\ auctionActionLoading' = FALSE
  /\ UNCHANGED buyingOut
  /\ UNCHANGED <<nonBuyoutVars, adminVars, flagPageVars, walletVars,
                 currentAuction, auctionsLoading, now, bidAmount, bidding, bidPc, bidRun>>
  /\ Rerender

\* catch: alert(error || 'Failed to buyout auction'); finally: setBuyingOut(false)
BuyoutRejected ==
  /\ buyoutPc = "awaitBuyout"
  /\ buyoutPc' = "idle"
  /\ auctionActionLoading' = FALSE
  /\ buyingOut' = FALSE
  /\ UNCHANGED <<nonBuyoutVars, adminVars, flagPageVars, walletVars,
                 currentAuction, auctionsLoading, now, bidAmount, bidding, bidPc, bidRun>>
  /\ Rerender

\* alert('Buyout successful! You now own this flag.'); finally as above
BuyoutFulfilled ==
  /\ buyoutPc = "awaitBuyout"
  /\ buyoutPc' = "idle"
  /\ currentAuction' \in AuctionAfterFulfilled
  /\ auctionActionLoading' = FALSE
  /\ buyingOut' = FALSE
  /\ UNCHANGED <<nonBuyoutVars, adminVars, flagPageVars, walletVars,
                 auctionsLoading, now, bidAmount, bidding, bidPc, bidRun>>
  /\ Rerender

AuctionFetch == auctionsLoading /\ \E a \in Auctions : FetchAuctionFulfilled(a)

NextAuction ==
  \/ AuctionFetch
  \/ FetchAuctionRejected
  \/ WalletEvent
  \/ Tick
  \/ \E text \in BidTexts : SetBidAmount(text)
  \/ handlePlaceBid
  \/ PlaceBidFulfilled
  \/ \E err \in Thrown : PlaceBidRejected(err)
  \/ \E confirmed \in BOOLEAN : handleBuyout(confirmed)
  \/ BuyoutFulfilled
  \/ BuyoutRejected

SpecAuction == Init /\ [][NextAuction]_vars

(***************************************************************************)
(* The admin slice and the admin page.  A request is counted in            *)
(* adminInFlight from the dispatch of its thunk to its fulfilled or        *)
(* rejected action; adminLast names the action the slice reduced last.     *)
(***************************************************************************)
MaxInFlight == 2
MaxFetches == 3

nonAdminVars == <<flagPageVars, walletVars, renderTime, auctionVars, elsewhereVars>>

AdminKeys == {"key"}
AdminStats == {"stats"}
AdminCountries == {"countries"}
IpfsStatuses == {"status"}

\* error.message of a failed api call
ApiErrors == {"Request failed"}

\* result.message of api.syncIpfsFromPinata; "" when the result has none
SyncResultMessages == {"", "Synced 3 images"}

LoadingInFlight ==
  adminInFlight["authenticate"] + adminInFlight["seedDemo"] + adminInFlight["syncIpfs"]

\* The counters after settled has settled and the thunks of started were
\* dispatched.
InFlightAfter(settled, started) ==
  [t \in AdminThunks |->
     adminInFlight[t] + (IF t \in started THEN 1 ELSE 0)
                      - (IF t \in settled THEN 1 ELSE 0)]

\* The requests in flight that no loading flag covers.
OtherInFlight ==
  adminInFlight["fetchStats"] + adminInFlight["fetchCountries"]
    + adminInFlight["fetchIpfsStatus"] + adminInFlight["toggleVisibility"]

CanStart(started) ==
  /\ LoadingInFlight + Cardinality(started \cap LoadingThunks) <= MaxInFlight
  /\ OtherInFlight + Cardinality(started \ LoadingThunks) <= MaxFetches

\* The fetches of the effect that runs when authenticated becomes true.
LoadDataFetches == {"fetchStats", "fetchCountries", "fetchIpfsStatus"}

\* handleAuth, from the button (disabled while loading) or from the Enter
\* key of the input; authenticate.pending is reduced at once.  The key
\* typed travels with the request and comes back in the fulfilled payload.
handleAuth(via) ==
  /\ ~admin.authenticated
  /\ via = "click" => ~admin.loading
  /\ CanStart({"authenticate"})
  /\ admin' = [admin EXCEPT !.loading = TRUE, !.error = {}]
  /\ adminInFlight' = InFlightAfter({}, {"authenticate"})
  /\ adminLast' = "admin/authenticate/pending"
  /\ UNCHANGED <<nonAdminVars, activeTab>>

AuthenticateFulfilled(key, stats) ==
  /\ adminInFlight["authenticate"] > 0
  /\ LET started == IF admin.authenticated THEN {} ELSE LoadDataFetches
     IN /\ CanStart(started)
        /\ adminInFlight' = InFlightAfter({"authenticate"}, started)
  /\ admin' = [admin EXCEPT !.loading = FALSE, !.authenticated = TRUE,
                            !.adminKey = {key}, !.stats = {stats}]
  /\ adminLast' = "admin/authenticate/fulfilled"
  /\ UNCHANGED <<nonAdminVars, activeTab>>

AuthenticateRejected ==
  /\ adminInFlight["authenticate"] > 0
  /\ admin' = [admin EXCEPT !.loading = FALSE, !.error = {"Invalid admin key"}]
  /\ adminInFlight' = InFlightAfter({"authenticate"}, {})
  /\ adminLast' = "admin/authenticate/rejected"
  /\ UNCHANGED <<nonAdminVars, activeTab>>

handleLogout ==
  /\ admin.authenticated
  /\ admin' = [admin EXCEPT !.authenticated = FALSE, !.adminKey = {},
                            !.stats = {}, !.countries = {}]
  /\ adminLast' = "admin/logout"
  /\ UNCHANGED <<nonAdminVars, adminInFlight, activeTab>>

\* The timer of the auto-clear effect fires.
clearMessage ==
  /\ admin.message # {} \/ admin.error # {}
  /\ admin' = [admin EXCEPT !.message = {}, !.error = {}]
  /\ adminLast' = "admin/clearMessage"
  /\ UNCHANGED <<nonAdminVars, adminInFlight, activeTab>>

setActiveTab(tab) ==
  /\ admin.authenticated
  /\ activeTab' = tab
  /\ UNCHANGED <<nonAdminVars, admin, adminInFlight, adminLast>>

\* The buttons of the Utilities tab are rendered for an authenticated admin
\* on that tab, and disabled while loading.
UtilitiesEnabled ==
  /\ admin.authenticated
  /\ activeTab = "Utilities"
  /\ ~admin.loading

handleSeedDemo(confirmed) ==
  /\ UtilitiesEnabled
  /\ IF confirmed
       THEN /\ CanStart({"seedDemo"})
            /\ admin' = [admin EXCEPT !.loading = TRUE, !.message = {}]
            /\ adminInFlight' = InFlightAfter({}, {"seedDemo"})
            /\ adminLast' = "admin/seedDemo/pending"
       ELSE UNCHANGED <<admin, adminInFlight, adminLast>>
  /\ UNCHANGED <<nonAdminVars, activeTab>>

\* The thunk dispatches the two fetches before it returns its message.
SeedDemoFulfilled ==
  /\ adminInFlight["seedDemo"] > 0
  /\ CanStart({"fetchStats", "fetchCountries"})
  /\ admin' = [admin EXCEPT !.loading = FALSE,
                            !.message = {"Demo data seeded successfully!"}]
  /\ adminInFlight' = InFlightAfter({"seedDemo"}, {"fetchStats", "fetchCountries"})
  /\ adminLast' = "admin/seedDemo/fulfilled"
  /\ UNCHANGED <<nonAdminVars, activeTab>>

SeedDemoRejected(err) ==
  /\ adminInFlight["seedDemo"] > 0
  /\ admin' = [admin EXCEPT !.loading = FALSE, !.error = {err}]
  /\ adminInFlight' = InFlightAfter({"seedDemo"}, {})
  /\ adminLast' = "admin/seedDemo/rejected"
  /\ UNCHANGED <<nonAdminVars, activeTab>>

handleSyncIpfs ==
  /\ UtilitiesEnabled
  /\ CanStart({"syncIpfs"})
  /\ admin' = [admin EXCEPT !.loading = TRUE, !.message = {}]
  /\ adminInFlight' = InFlightAfter({}, {"syncIpfs"})
  /\ adminLast' = "admin/syncIpfs/pending"
  /\ UNCHANGED <<nonAdminVars, activeTab>>

\* result.message || 'IPFS sync completed successfully!'; the then() of
\* handleSyncIpfs dispatches fetchIpfsStatus once the request has settled.
SyncIpfsFulfilled(resultMessage) ==
  /\ adminInFlight["syncIpfs"] > 0
  /\ CanStart({"fetchIpfsStatus"})
  /\ admin' = [admin EXCEPT !.loading = FALSE,
                            !.message = {IF resultMessage # "" THEN resultMessage
                                         ELSE "IPFS sync completed successfully!"}]
  /\ adminInFlight' = InFlightAfter({"syncIpfs"}, {"fetchIpfsStatus"})
  /\ adminLast' = "admin/syncIpfs/fulfilled"
  /\ UNCHANGED <<nonAdminVars, activeTab>>

SyncIpfsRejected(err) ==
  /\ adminInFlight["syncIpfs"] > 0
  /\ CanStart({"fetchIpfsStatus"})
  /\ admin' = [admin EXCEPT !.loading = FALSE, !.error = {err}]
  /\ adminInFlight' = InFlightAfter({"syncIpfs"}, {"fetchIpfsStatus"})
  /\ adminLast' = "admin/syncIpfs/rejected"
  /\ UNCHANGED <<nonAdminVars, activeTab>>

\* The three fulfilled cases of the fetch thunks: state.<field> = action.payload.
\* The variant also ends the loading of the slice.
fetchFulfilledEndsLoading(state, field, payload) ==
  [state EXCEPT ![field] = {payload}, !.loading = FALSE]

fetchFulfilled(state, field, payload) ==
  [state EXCEPT ![field] = {payload}]

FetchAdminStatsFulfilled(stats) ==
  /\ adminInFlight["fetchStats"] > 0
  /\ admin' = fetchFulfilled(admin, "stats", stats)
  /\ adminInFlight' = InFlightAfter({"fetchStats"}, {})
  /\ adminLast' = "admin/fetchStats/fulfilled"
  /\ UNCHANGED <<nonAdminVars, activeTab>>

FetchAdminCountriesFulfilled(countries) ==
  /\ adminInFlight["fetchCountries"] > 0
  /\ admin' = fetchFulfilled(admin, "countries", countries)
  /\ adminInFlight' = InFlightAfter({"fetchCountries"}, {})
  /\ adminLast' = "admin/fetchCountries/fulfilled"
  /\ UNCHANGED <<nonAdminVars, activeTab>>

FetchIpfsStatusFulfilled(status) ==
  /\ adminInFlight["fetchIpfsStatus"] > 0
  /\ admin' = fetchFulfilled(admin, "ipfsStatus", status)
  /\ adminInFlight' = InFlightAfter({"fetchIpfsStatus"}, {})
  /\ adminLast' = "admin/fetchIpfsStatus/fulfilled"
  /\ UNCHANGED <<nonAdminVars, activeTab>>

\* The Hide / Show button of a row of the Countries tab; the button is not
\* disabled while a request is in flight, and the thunk has no pending case.
handleToggleVisibility ==
  /\ admin.authenticated
  /\ activeTab = "Countries"
  /\ admin.countries # {}
  /\ CanStart({"toggleVisibility"})
  /\ adminInFlight' = InFlightAfter({}, {"toggleVisibility"})
  /\ adminLast' = "admin/toggleVisibility/pending"
  /\ UNCHANGED <<nonAdminVars, admin, activeTab>>

\* api.updateCountry resolved: the thunk dispatches fetchAdminCountries and
\* returns; the slice has no fulfilled case for it.
ToggleVisibilityFulfilled ==
  /\ adminInFlight["toggleVisibility"] > 0
  /\ CanStart({"fetchCountries"})
  /\ adminInFlight' = InFlightAfter({"toggleVisibility"}, {"fetchCountries"})
  /\ adminLast' = "admin/toggleVisibility/fulfilled"
  /\ UNCHANGED <<nonAdminVars, admin, activeTab>>

ToggleVisibilityRejected(err) ==
  /\ adminInFlight["toggleVisibility"] > 0
  /\ admin' = [admin EXCEPT !.error = {err}]
  /\ adminInFlight' = InFlightAfter({"toggleVisibility"}, {})
  /\ adminLast' = "admin/toggleVisibility/rejected"
  /\ UNCHANGED <<nonAdminVars, activeTab>>

\* A rejected fetch has no reducer: the slice keeps its state.
AdminFetchRejected(t) ==
  /\ adminInFlight[t] > 0
  /\ adminInFlight' = InFlightAfter({t}, {})
  /\ adminLast' = "admin/" \o t \o "/rejected"
  /\ UNCHANGED <<nonAdminVars, admin, activeTab>>

NextAdmin ==
  \/ \E via \in {"click", "enter"} : handleAuth(via)
  \/ \E key \in AdminKeys, stats \in AdminStats : AuthenticateFulfilled(key, stats)
  \/ AuthenticateRejected
  \/ handleLogout
  \/ clearMessage
  \/ \E tab \in {"Stats", "Countries", "Utilities"} : setActiveTab(tab)
  \/ \E confirmed \in BOOLEAN : handleSeedDemo(confirmed)
  \/ SeedDemoFulfilled
  \/ \E err \in ApiErrors : SeedDemoRejected(err)
  \/ handleSyncIpfs
  \/ \E resultMessage \in SyncResultMessages : SyncIpfsFulfilled(resultMessage)
  \/ \E err \in ApiErrors : SyncIpfsRejected(err)
  \/ \E stats \in AdminStats : FetchAdminStatsFulfilled(stats)
  \/ \E countries \in AdminCountries : FetchAdminCountriesFulfilled(countries)
  \/ \E status \in IpfsStatuses : FetchIpfsStatusFulfilled(status)
  \/ \E t \in LoadDataFetches : AdminFetchRejected(t)
  \/ handleToggleVisibility
  \/ ToggleVisibilityFulfilled
  \/ \E err \in ApiErrors : ToggleVisibilityRejected(err)

SpecAdmin == Init /\ [][NextAdmin]_vars

(***************************************************************************)
(* The profile page, opened with an address in its URL, and the creation   *)
(* of an auction from it.  createRun records what the last                 *)
(* handleSubmitAuction call has posted, refetched and shown.               *)
(***************************************************************************)
nonProfileVars == <<flagPageVars, renderTime, auctionVars, adminVars, laterVars>>

urlAddress == Str(AddrMixed)

\* urlAddress || connectedAddress
profileAddress == IF urlAddress.t = "string" THEN urlAddress ELSE address

isOwnProfile ==
  \/ urlAddress.t # "string"
  \/ isConnected /\ OptToLowerCase(urlAddress) = OptToLowerCase(address)

\* The flag ids of the user's ownerships, and of the active auctions.
UserFlagLists == {<<>>, <<7>>}
ActiveAuctionLists == {<<>>, <<7>>}

\* error.response?.data?.detail of a failed post; "" when it has none
PostErrorDetails == {"", "Flag is already in an active auction"}

hasActiveAuction(flagId) ==
  \E k \in 1..Len(activeAuctions) : activeAuctions[k] = flagId

ProfileView == IF userLoading THEN "loading" ELSE "profile"

FetchUserDataFulfilled(list) ==
  /\ userInFlight > 0
  /\ userInFlight' = userInFlight - 1
  /\ userFlags' = list
  /\ userLoading' = FALSE
  /\ UNCHANGED <<nonProfileVars, walletVars, activeAuctions, auctionsInFlight,
                 showAuctionModal, selectedFlag, auctionData, creating, createPc,
                 createRun>>

FetchUserDataRejected ==
  /\ userInFlight > 0
  /\ userInFlight' = userInFlight - 1
  /\ userLoading' = FALSE
  /\ UNCHANGED <<nonProfileVars, walletVars, userFlags, activeAuctions,
                 auctionsInFlight, showAuctionModal, selectedFlag, auctionData,
                 creating, createPc, createRun>>

\* loadActiveAuctions: the list is kept with setActiveAuctions.
LoadActiveAuctionsResolved(list) ==
  /\ auctionsInFlight > 0
  /\ auctionsInFlight' = auctionsInFlight - 1
  /\ activeAuctions' = list
  /\ UNCHANGED <<nonProfileVars, walletVars, userFlags, userLoading, userInFlight,
                 showAuctionModal, selectedFlag, auctionData, creating, createPc,
                 createRun>>

\* loadActiveAuctions: the failure is logged to the console.
LoadActiveAuctionsRejected ==
  /\ auctionsInFlight > 0
  /\ auctionsInFlight' = auctionsInFlight - 1
  /\ UNCHANGED <<nonProfileVars, walletVars, userFlags, userLoading, userInFlight,
                 activeAuctions, showAuctionModal, selectedFlag, auctionData,
                 creating, createPc, createRun>>

\* The Create Auction button of an owned flag: rendered on the own profile,
\* disabled when the flag is in an active auction.
handleCreateAuction(k) ==
  /\ ProfileView = "profile"
  /\ isOwnProfile
  /\ k \in 1..Len(userFlags)
  /\ ~hasActiveAuction(userFlags[k])
  /\ selectedFlag' = {userFlags[k]}
  /\ showAuctionModal' = TRUE
  /\ UNCHANGED <<nonProfileVars, walletVars, userFlags, userLoading, userInFlight,
                 activeAuctions, auctionsInFlight, auctionData, creating, createPc,
                 createRun>>

ModalRendered == ProfileView = "profile" /\ showAuctionModal

\* onChange of the starting price input of the modal.
setAuctionData(text) ==
  /\ ModalRendered
  /\ auctionData' = text
  /\ UNCHANGED <<nonProfileVars, walletVars, userFlags, userLoading, userInFlight,
                 activeAuctions, auctionsInFlight, showAuctionModal, selectedFlag,
                 creating, createPc, createRun>>

\* The Cancel button of the modal, disabled while creating.
CancelAuctionModal ==
  /\ ModalRendered
  /\ ~creating
  /\ showAuctionModal' = FALSE
  /\ selectedFlag' = {}
  /\ UNCHANGED <<nonProfileVars, walletVars, userFlags, userLoading, userInFlight,
                 activeAuctions, auctionsInFlight, auctionData, creating, createPc,
                 createRun>>

\* Faulty variant of handleSubmitAuction: the owned flag is taken off the
\* cached list when the post is sent, before any response.
handleSubmitAuctionOptimistic ==
  /\ ModalRendered
  /\ ~creating
  /\ IF selectedFlag = {} \/ profileAddress.t # "string"
       THEN UNCHANGED <<creating, createPc, createRun, userFlags>>
       ELSE /\ creating' = TRUE
            /\ createPc' = "awaitPost"
            /\ createRun' = [NoCreateRun EXCEPT !.outcome = "pending", !.postCalls = 1]
            /\ userFlags' = <<>>
  /\ UNCHANGED <<nonProfileVars, walletVars, userLoading, userInFlight,
                 activeAuctions, auctionsInFlight, showAuctionModal, selectedFlag,
                 auctionData>>

\* The submit button of the modal, disabled while creating.
handleSubmitAuction ==
  /\ ModalRendered
  /\ ~creating
  /\ IF selectedFlag = {} \/ profileAddress.t # "string"
       THEN UNCHANGED <<creating, createPc, createRun, userFlags>>
       ELSE /\ creating' = TRUE
            /\ createPc' = "awaitPost"
            /\ createRun' = [NoCreateRun EXCEPT !.outcome = "pending", !.postCalls = 1]
            /\ userFlags' = userFlags
  /\ UNCHANGED <<nonProfileVars, walletVars, userLoading, userInFlight,
                 activeAuctions, auctionsInFlight, showAuctionModal, selectedFlag,
                 auctionData>>

\* api.post resolved: success alert, the modal is closed and reset, then
\* fetchUserData is dispatched and loadActiveAuctions called; finally.
CreateAuctionResolved ==
  /\ createPc = "awaitPost"
  /\ userInFlight < MaxInFlight
  /\ auctionsInFlight < MaxInFlight
  /\ createPc' = "idle"
  /\ showAuctionModal' = FALSE
  /\ auctionData' = <<>>
  /\ selectedFlag' = {}
  /\ userInFlight' = userInFlight + 1
  /\ userLoading' = TRUE
  /\ auctionsInFlight' = auctionsInFlight + 1
  /\ creating' = FALSE
  /\ createRun' = [createRun EXCEPT
                     !.outcome = "fulfilled", !.refetches = @ + 1,
                     !.alerts = Append(@,
                        Alert("Auction created successfully! Check the Auctions page.", 0))]
  /\ UNCHANGED <<nonProfileVars, walletVars, userFlags, activeAuctions>>

\* api.post rejected: alert(error.response?.data?.detail || 'Failed to
\* create auction'); finally.
CreateAuctionRejected(detail) ==
  /\ createPc = "awaitPost"
  /\ createPc' = "idle"
  /\ creating' = FALSE
  /\ createRun' = [createRun EXCEPT
                     !.outcome = "rejected",
                     !.alerts = Append(@,
                        Alert(IF detail # "" THEN detail ELSE "Failed to create auction", 0))]
  /\ UNCHANGED <<nonProfileVars, walletVars, userFlags, userLoading, userInFlight,
                 activeAuctions, auctionsInFlight, showAuctionModal, selectedFlag,
                 auctionData>>

UserDataFetch == userInFlight > 0 /\ \E list \in UserFlagLists : FetchUserDataFulfilled(list)

NextProfile ==
  \/ WalletEvent
  \/ UserDataFetch
  \/ FetchUserDataRejected
  \/ \E list \in ActiveAuctionLists : LoadActiveAuctionsResolved(list)
  \/ LoadActiveAuctionsRejected
  \/ \E k \in 1..1 : handleCreateAuction(k)
  \/ \E text \in {<<>>, <<0, 5>>} : setAuctionData(text)
  \/ CancelAuctionModal
  \/ handleSubmitAuction
  \/ CreateAuctionResolved
  \/ \E detail \in PostErrorDetails : CreateAuctionRejected(detail)

SpecProfile == Init /\ [][NextProfile]_vars

(***************************************************************************)
(* One page is mounted at a time: while the actions of one page run, the   *)
(* other pages keep the state they are mounted with.                       *)
(***************************************************************************)
\* The admin page or the profile page.
NextMutations ==
  \/ InitWallet /\ InitProfile /\ NextAdmin
  \/ InitAdmin /\ NextProfile

SpecMutations == Init /\ [][NextMutations]_vars

\* The three pages whose handlers keep a local in-flight flag, one page
\* mounted at a time: the flag page, the auction page, the profile page.
NextHandlers ==
  \/ InitAuctionPage /\ InitProfile /\ Next
  \/ InitFlagPage /\ InitProfile /\ NextAuction
  \/ InitFlagPage /\ InitAuctionPage /\ NextProfile

SpecHandlers == Init /\ [][NextHandlers]_vars

(***************************************************************************)
(* The bid history of the auction page.  The bids and highest_bidder_id    *)
(* fields of the auction of the store are kept in bidHistory; the other    *)
(* fields are in currentAuction.                                           *)
(***************************************************************************)
MaxBids == 2

Id(digits) == [t |-> "number", s |-> digits]

Bids ==
  [bidder_id : {Id(<<"1">>), Id(<<"2">>)},
   amount : {50, 80},
   bidder_category : {"standard", "premium"}]

RECURSIVE BidLists(_)
BidLists(n) ==
  IF n = 0 THEN {<<>>}
  ELSE BidLists(n - 1) \cup
       {Append(l, b) : l \in {x \in BidLists(n - 1) : Len(x) = n - 1}, b \in Bids}

BidHistories ==
  [bids : BidLists(MaxBids),
   highest_bidder_id : {JsNull, Id(<<"1">>), Id(<<"2">>)}]

history == CHOOSE h \in bidHistory : TRUE

\* auction.bids && auction.bids.length > 0
BidHistoryRendered == bidHistory # {} /\ Len(history.bids) > 0

\* Variant of the marker: the bid of the greatest amount is the marked one.
isHighestBidByAmount(bid, a) ==
  \A k \in DOMAIN a.bids : a.bids[k].amount <= bid.amount

\* bid.bidder_id === auction.highest_bidder_id
isHighestBid(bid, a) == bid.bidder_id = a.highest_bidder_id

\* The rows of the history that carry the "Highest Bid" marker.
HighestBidMarkers ==
  IF BidHistoryRendered
    THEN {k \in DOMAIN history.bids : isHighestBid(history.bids[k], history)}
  ELSE {}

nonBidHistoryVars ==
  <<flagPageVars, walletVars, renderTime, auctionVars, adminVars, profileVars, buyoutVars,
    alwaysRevealedVars, priceVars, routeVars>>

\* fetchAuction fulfilled: the auction of the response becomes the current one.
FetchAuctionBids(h) ==
  /\ bidHistory = {}
  /\ bidHistory' = {h}
  /\ UNCHANGED nonBidHistoryVars

\* placeBid fulfilled: the response is the auction with the new bid.
PlaceBidBids(h) ==
  /\ bidHistory # {}
  /\ bidHistory' = {h}
  /\ UNCHANGED nonBidHistoryVars

NextBidHistory ==
  \/ \E h \in BidHistories : FetchAuctionBids(h)
  \/ \E h \in BidHistories : PlaceBidBids(h)

SpecBidHistory == Init /\ [][NextBidHistory]_vars

(***************************************************************************)
(* The always-revealed flag detail page.  Its handlers keep no local       *)
(* state: the buttons are disabled by actionLoading of the flags slice,    *)
(* which a persistence thunk sets while it is in flight.                   *)
(***************************************************************************)
MaxSignings == 2

nonAlwaysRevealedVars ==
  <<localVars, pcVars, run, walletVars, renderTime, auctionVars, adminVars,
    profileVars, bidHistory, buyoutVars, priceVars, routeVars>>

\* disabled={actionLoading} on the three buttons
EnabledAlwaysRevealedControls == IF actionLoading THEN {} ELSE UngatedControls

ControlOf(h) == IF h = "claimFirst" THEN "claim-first" ELSE "purchase-second"

\* dispatch(registerInterest(...)), not awaited; a disconnected viewer gets
\* an alert and nothing else.
handleShowInterestAlwaysRevealed ==
  /\ "show-interest" \in EnabledAlwaysRevealedControls
  /\ isConnected
  /\ persisting < MaxSignings
  /\ persisting' = persisting + 1
  /\ actionLoading' = TRUE
  /\ UNCHANGED <<nonAlwaysRevealedVars, currentFlag, loading, signing>>

\* handleClaimFirst and handlePurchaseSecond up to their await of the wallet:
\* after the check of isConnected nothing is set before web3ClaimFirst or
\* web3PurchaseSecond is called.
handleSigningAlwaysRevealed(h) ==
  /\ ControlOf(h) \in EnabledAlwaysRevealedControls
  /\ isConnected
  /\ signing[h] < MaxSignings
  /\ signing' = [signing EXCEPT ![h] = @ + 1]
  /\ UNCHANGED <<nonAlwaysRevealedVars, storeVars, persisting>>

\* The wallet call resolved: the persistence thunk is dispatched and the
\* success alert shown.
SignResolvedAlwaysRevealed(h) ==
  /\ signing[h] > 0
  /\ persisting < MaxSignings
  /\ signing' = [signing EXCEPT ![h] = @ - 1]
  /\ persisting' = persisting + 1
  /\ actionLoading' = TRUE
  /\ UNCHANGED <<nonAlwaysRevealedVars, currentFlag, loading>>

\* catch (err) { alert(err.message) }
SignRejectedAlwaysRevealed(h) ==
  /\ signing[h] > 0
  /\ signing' = [signing EXCEPT ![h] = @ - 1]
  /\ UNCHANGED <<nonAlwaysRevealedVars, storeVars, persisting>>

\* A persistence thunk of the flags slice settles.
PersistFulfilledAlwaysRevealed ==
  /\ persisting > 0
  /\ persisting' = persisting - 1
  /\ actionLoading' = FALSE
  /\ currentFlag' \in FlagAfterFulfilled
  /\ UNCHANGED <<nonAlwaysRevealedVars, loading, signing>>

PersistRejectedAlwaysRevealed ==
  /\ persisting > 0
  /\ persisting' = persisting - 1
  /\ actionLoading' = FALSE
  /\ UNCHANGED <<nonAlwaysRevealedVars, currentFlag, loading, signing>>

AlwaysRevealedFetch ==
  /\ loading
  /\ \E f \in FlowFlags : FetchFlagFulfilled(f)

NextAlwaysRevealed ==
  \/ AlwaysRevealedFetch
  \/ FetchFlagRejected
  \/ WalletEvent
  \/ handleShowInterestAlwaysRevealed
  \/ \E h \in SigningHandlers : handleSigningAlwaysRevealed(h)
  \/ \E h \in SigningHandlers : SignResolvedAlwaysRevealed(h)
  \/ \E h \in SigningHandlers : SignRejectedAlwaysRevealed(h)
  \/ PersistFulfilledAlwaysRevealed
  \/ PersistRejectedAlwaysRevealed

SpecAlwaysRevealed == Init /\ [][NextAlwaysRevealed]_vars

(***************************************************************************)
(* Prices.  The code parses a price text with parseFloat and multiplies    *)
(* the double by nfts_required.  A double is kept as its significand of 53 *)
(* bits, in two halves, and the exponent of its first bit: the value is    *)
(* (hi * 2^LoBits + lo) * 2^(e - 52), with 2^25 <= hi < 2^26.              *)
(***************************************************************************)
MaxNfts == 10
HiBits == 26
LoBits == 27

RECURSIVE Pow2(_)
Pow2(n) == IF n = 0 THEN 1 ELSE 2 * Pow2(n - 1)

\* q / d as num / den * 2^e with 1 <= num / den < 2
RECURSIVE Normalised(_, _, _)
Normalised(num, den, e) ==
  IF num < den THEN Normalised(2 * num, den, e - 1)
  ELSE IF num >= 2 * den THEN Normalised(num, 2 * den, e + 1)
  ELSE [num |-> num, den |-> den, e |-> e]

\* the next k bits of r / den < 1 as a number, and what remains of it
FractionBits(r, den, k) ==
  [v |-> (r * Pow2(k)) \div den, r |-> (r * Pow2(k)) % den]

\* The significand one unit in the last place up.
RoundedUp(hi, lo, e) ==
  IF lo + 1 < Pow2(LoBits) THEN [hi |-> hi, lo |-> lo + 1, e |-> e]
  ELSE IF hi + 1 < Pow2(HiBits) THEN [hi |-> hi + 1, lo |-> 0, e |-> e]
  ELSE [hi |-> Pow2(HiBits - 1), lo |-> 0, e |-> e + 1]

\* The double nearest to q / d, ties to the even one (q, d > 0).
ToDouble(q, d) ==
  LET s == Normalised(q, d, 0)
      a == FractionBits(s.num - s.den, s.den, 13)
      b == FractionBits(a.r, s.den, 12)
      c == FractionBits(b.r, s.den, 14)
      f == FractionBits(c.r, s.den, 13)
      hi == Pow2(HiBits - 1) + a.v * Pow2(12) + b.v
      lo == c.v * Pow2(13) + f.v
      up == \/ 2 * f.r > s.den
            \/ 2 * f.r = s.den /\ lo % 2 = 1
  IN  IF up THEN RoundedUp(hi, lo, s.e) ELSE [hi |-> hi, lo |-> lo, e |-> s.e]

\* the number of bits of h beyond HiBits
ExtraBits(h) == CHOOSE k \in 0..4 : Pow2(HiBits + k - 1) <= h /\ h < Pow2(HiBits + k)

\* x * n of two doubles, n a small positive integer: the exact product
\* rounded to 53 bits, ties to even.
DoubleTimes(x, n) ==
  LET low == x.lo * n
      high == x.hi * n + low \div Pow2(LoBits)
      k == ExtraBits(high)
      rest == (high % Pow2(k)) * Pow2(LoBits) + (low % Pow2(LoBits))
      hi == high \div Pow2(k)
      lo == rest \div Pow2(k)
      dropped == rest % Pow2(k)
      up == \/ 2 * dropped > Pow2(k)
            \/ 2 * dropped = Pow2(k) /\ lo % 2 = 1
  IN  IF up THEN RoundedUp(hi, lo, x.e + k) ELSE [hi |-> hi, lo |-> lo, e |-> x.e + k]

\* parseFloat of a price text, as the double the code computes with
parseFloatDouble(text) == ToDouble(parseFloat(text), Pow10(BidDecimals))

\* "0.01" and "0.05"; no discount, "0.005" and "0.04"
PriceTexts == {<<0, 1>>, <<0, 5>>}
DiscountTexts == {<<>>, <<0, 0, 5>>, <<0, 4>>}

\* flag.price, selectDiscountedPrice(id) (absent: the empty text),
\* flag.nfts_required (absent: 0)
Pricings ==
  [price : PriceTexts,
   discountedPrice : DiscountTexts,
   nfts_required : 0..MaxNfts]

priced == CHOOSE c \in pricing : TRUE

\* flag?.nfts_required || 1
nftsRequiredOf(c) == IF c.nfts_required = 0 THEN 1 ELSE c.nfts_required

\* The detail page
basePricePerNft(c) == parseFloatDouble(c.price)
totalBasePrice(c) == DoubleTimes(basePricePerNft(c), nftsRequiredOf(c))
discountedPricePerNft(c) ==
  IF c.discountedPrice # <<>> THEN parseFloatDouble(c.discountedPrice)
  ELSE basePricePerNft(c)
totalDiscountedPrice(c) == DoubleTimes(discountedPricePerNft(c), nftsRequiredOf(c))

\* discountedPrice || flag.price
pricePerNft(c) == IF c.discountedPrice # <<>> THEN c.discountedPrice ELSE c.price

\* The price handed to formatPrice on the purchase-second button.
PurchaseSecondLabelPrice(c) ==
  IF nftsRequiredOf(c) > 1 THEN totalDiscountedPrice(c)
  ELSE parseFloatDouble(pricePerNft(c))

\* The list card: parseFloat(flag.price) * (flag.nfts_required || 1)
FlagCardTotalPrice(c) == DoubleTimes(parseFloatDouble(c.price), nftsRequiredOf(c))

nonPriceVars ==
  <<flagPageVars, walletVars, renderTime, auctionVars, adminVars, profileVars,
    bidHistory, buyoutVars, alwaysRevealedVars, routeVars>>

\* The flag and the discounted price of the viewer arrive in the store.
FetchPrices(c) ==
  /\ pricing' = {c}
  /\ UNCHANGED <<nonPriceVars, purchaseCall>>

\* handlePurchaseSecond up to web3PurchaseSecond(flag.id, totalPrice.toString()):
\* toString gives the shortest text that parses to the same double, so the
\* wallet call gets the double itself.
PurchaseSecondPriced ==
  /\ pricing # {}
  /\ purchaseCall' =
       {[totalPrice |-> DoubleTimes(parseFloatDouble(pricePerNft(priced)),
                                    nftsRequiredOf(priced)),
         pricing |-> priced]}
  /\ UNCHANGED <<nonPriceVars, pricing>>

PriceFetch == \E c \in Pricings : FetchPrices(c)

NextPrices ==
  \/ PriceFetch
  \/ PurchaseSecondPriced

SpecPrices == Init /\ [][NextPrices]_vars

(***************************************************************************)
(* Navigation between two entities on a detail page.  The effect of the    *)
(* page runs again when the id of the route changes; the slice answers a   *)
(* fulfilled fetch by the id it was last asked for.                        *)
(***************************************************************************)
nonRouteVars ==
  <<flagPageVars, walletVars, renderTime, auctionVars, adminVars, profileVars,
    bidHistory, buyoutVars, alwaysRevealedVars, priceVars>>

\* Faulty variant of the effect: it runs with the id of the previous render.
NavigateFetchingPrevious(page, id) ==
  /\ id # routeId[page]
  /\ routeId' = [routeId EXCEPT ![page] = id]
  /\ requested' = [requested EXCEPT ![page] = routeId[page]]
  /\ fetching' = [fetching EXCEPT ![page] = @ \cup {routeId[page]}]
  /\ shown' = [shown EXCEPT ![page] = IF page = "auction" THEN {} ELSE @]
  /\ fulfilledSinceNav' = [fulfilledSinceNav EXCEPT ![page] = {}]
  /\ UNCHANGED nonRouteVars

\* The id of the route changes: the cleanup of the auction page dispatches
\* clearCurrentAuction (the flag page has no cleanup), then the effect
\* dispatches the fetch of the new id.  Nothing cancels the fetch in flight.
Navigate(page, id) ==
  /\ id # routeId[page]
  /\ routeId' = [routeId EXCEPT ![page] = id]
  /\ requested' = [requested EXCEPT ![page] = id]
  /\ fetching' = [fetching EXCEPT ![page] = @ \cup {id}]
  /\ shown' = [shown EXCEPT ![page] = IF page = "auction" THEN {} ELSE @]
  /\ fulfilledSinceNav' = [fulfilledSinceNav EXCEPT ![page] = {}]
  /\ UNCHANGED nonRouteVars

\* The response of the fetch of id arrives: the slice commits the entity
\* when id is the one it was last asked for, and drops it otherwise.
RouteFetchFulfilled(page, id) ==
  /\ id \in fetching[page]
  /\ fetching' = [fetching EXCEPT ![page] = @ \ {id}]
  /\ shown' = [shown EXCEPT ![page] = IF id = requested[page] THEN {id} ELSE @]
  /\ fulfilledSinceNav' = [fulfilledSinceNav EXCEPT ![page] = @ \cup {id}]
  /\ UNCHANGED <<nonRouteVars, routeId, requested>>

RouteFetchRejected(page, id) ==
  /\ id \in fetching[page]
  /\ fetching' = [fetching EXCEPT ![page] = @ \ {id}]
  /\ UNCHANGED <<nonRouteVars, routeId, requested, shown, fulfilledSinceNav>>

NextRoute ==
  \/ \E page \in DetailPages, id \in RouteIds : Navigate(page, id)
  \/ \E page \in DetailPages, id \in RouteIds : RouteFetchFulfilled(page, id)
  \/ \E page \in DetailPages, id \in RouteIds : RouteFetchRejected(page, id)

SpecRoute == Init /\ [][NextRoute]_vars

(***************************************************************************)
(* Properties.                                                             *)
(***************************************************************************)
\* The viewer's address appears, compared case-insensitively, as the wallet
\* address of an entry of the list.
SameIgnoringCase(a, b) ==
  /\ Len(a) = Len(b)
  /\ \A i \in 1..Len(a) : ToLowerChar(a[i]) = ToLowerChar(b[i])

ViewerListedIn(list) ==
  /\ address.t = "string"
  /\ list.present
  /\ \E k \in 1..Len(list.items) :
       /\ list.items[k].hasUser
       /\ list.items[k].wallet_address.t = "string"
       /\ SameIgnoringCase(list.items[k].wallet_address.s, address.s)

ViewerListed == ViewerListedIn(flag.interests) \/ ViewerListedIn(flag.ownerships)

\* The state of section 4.3's table.
FlagState ==
  IF flag.is_pair_complete THEN "COMPLETE"
  ELSE IF flag.first_nft_status = "available" THEN "FIRST_OPEN"
  ELSE IF flag.first_nft_status = "claimed" /\ flag.second_nft_status = "available"
    THEN "SECOND_OPEN"
  ELSE "BLOCKED"

SuccessTexts ==
  {"First NFT claimed successfully!",
   "Successfully claimed ${nftsRequired} first NFTs!",
   "Second NFT purchased! Pair complete!",
   "Successfully purchased ${nftsRequired} second NFTs! Pair complete!"}

\* C1: a flag whose pair is complete is revealed on the gated detail page to
\* every viewer, connected or not, whatever its interests and ownerships hold.
C1_PairCompleteRevealed ==
  (currentFlag # {} /\ flag.is_pair_complete) =>
    (isRevealed /\ (~loading => PageView = "revealed"))

C1_Witness ==
  /\ currentFlag # {}
  /\ flag.is_pair_complete
  /\ address = JsNull
  /\ flag.interests = ListOf(<<>>)
  /\ flag.ownerships = ListOf(<<>>)
  /\ PageView = "revealed"

\* C2: for a flag whose pair is not complete and a viewer with a connected
\* address, isRevealed holds exactly when the address appears, compared
\* case-insensitively, as the wallet address of an interest or an ownership.
C2_RevealedIffListed ==
  (currentFlag # {} /\ ~flag.is_pair_complete /\ address.t = "string") =>
    (isRevealed <=> ViewerListed)

C2_Witness ==
  /\ currentFlag # {}
  /\ ~flag.is_pair_complete
  /\ address = Str(AddrViewer)
  /\ flag.interests = ListOf(<<EntryNoUser, EntryOf(AddrMixed)>>)
  /\ flag.ownerships = ListOf(<<>>)
  /\ isRevealed

\* C3: a viewer with no connected wallet is never shown a flag whose pair is
\* not complete as revealed, whatever its interests and ownerships hold.
C3_NullViewerNeverRevealed ==
  (currentFlag # {} /\ ~flag.is_pair_complete /\ address = JsNull) => ~isRevealed

\* C4: the hidden view renders from the flag only its category, its NFT count
\* and its interest count; no image, name, location type or municipality.
C4_HiddenViewFields ==
  PageView = "mystery" =>
    /\ RenderedFields \subseteq {"category", "nfts_required", "interest_count"}
    /\ RenderedFields \cap
         {"image", "name", "location_type", "municipality.id", "municipality.name"} = {}

\* C5: the list card shows the flag's image, name and location type only if
\* the detail page's isRevealed is true for the same flag and viewer.
C5_CardGatedLikeDetail ==
  currentFlag # {} =>
    \A showMunicipality \in BOOLEAN :
      (FlagCardFields(flag, showMunicipality) \cap {"image", "name", "location_type"} # {})
        => isRevealed

\* C6: in the revealed view the acquisition controls are those of exactly one
\* state of the table: show-interest/claim-first never together with
\* purchase-second, and none when the pair is complete or the flag is BLOCKED.
ControlsFitState(controls) ==
  /\ ~(controls \cap {"show-interest", "claim-first"} # {} /\ "purchase-second" \in controls)
  /\ FlagState \in {"COMPLETE", "BLOCKED"} => controls = {}
  /\ FlagState = "FIRST_OPEN" =>
       ("claim-first" \in controls /\ controls \subseteq {"show-interest", "claim-first"})
  /\ FlagState = "SECOND_OPEN" => controls = {"purchase-second"}

C6_ControlsOfOneState ==
  /\ PageView = "revealed" => ControlsFitState(Controls)
  /\ (~loading /\ currentFlag # {}) => ControlsFitState(UngatedControls)

C6_Witness ==
  /\ PageView = "revealed"
  /\ ~flag.is_pair_complete
  /\ flag.first_nft_status = "available"
  /\ flag.second_nft_status = "available"
  /\ Controls = {"show-interest", "claim-first"}

\* C7 as stated: for a FIRST_OPEN flag claim-first is offered to a connected
\* viewer who has registered no interest and owns no NFT of the flag.
C7_ClaimFirstWithoutInterest ==
  (/\ ~loading
   /\ currentFlag # {}
   /\ FlagState = "FIRST_OPEN"
   /\ isConnected
   /\ address.t = "string"
   /\ ~ViewerListed)
    => "claim-first" \in Controls

\* C7 amended: for a FIRST_OPEN flag and a viewer with a connected address,
\* claim-first is offered exactly when the viewer is listed in the flag's
\* interests or ownerships; a viewer listed in neither is offered only
\* show-interest.
C7_ClaimFirstIffListed ==
  (/\ ~loading
   /\ currentFlag # {}
   /\ FlagState = "FIRST_OPEN"
   /\ isConnected
   /\ address.t = "string")
    => /\ "claim-first" \in Controls <=> ViewerListed
       /\ ~ViewerListed => Controls = {"show-interest"}

C7_Witness ==
  /\ PageView = "mystery"
  /\ FlagState = "FIRST_OPEN"
  /\ isConnected
  /\ address = Str(AddrViewer)
  /\ flag.interests = ListOf(<<EntryOf(AddrOther)>>)
  /\ Controls = {"show-interest"}

\* C8: every amount for which handlePlaceBid dispatches placeBid is at least
\* max(min_price, current_highest_bid + 0.001).
C8_BidAtLeastMinimum ==
  (bidRun.placeBidCalls > 0 /\ ~IsNaN(bidRun.current_highest_bid)) =>
    /\ bidRun.amount >= parseFloat(bidRun.min_price)
    /\ bidRun.amount >= parseFloat(bidRun.current_highest_bid) + 1

\* C9: when the wallet signing call of claim-first or purchase-second is
\* rejected, no persistence action is dispatched and the handler ends with
\* one error message shown.
SignRejected ==
  /\ run.handler \in {"claimFirst", "purchaseSecond"}
  /\ run.sign = "rejected"

C9_SignFailureStopsFlow ==
  SignRejected =>
    /\ run.persistCalls = 0
    /\ run.persist = "none"
    /\ Len(run.alerts) = 1
    /\ run.alerts[1].text \notin SuccessTexts
    /\ run.handler = "claimFirst" => (claimPc = "idle" /\ ~claimLoading)
    /\ run.handler = "purchaseSecond" => (purchasePc = "idle" /\ ~purchaseLoading)

C9_Witness ==
  /\ SignRejected
  /\ run.handler = "claimFirst"
  /\ run.alerts = <<Alert("User rejected the request", 0)>>

\* C10: when signing succeeded and the persistence call is rejected, one
\* error message and no success message is shown, and the signing call and
\* the persistence call have each been issued once.
PersistRejectedAfterSign ==
  /\ run.handler \in {"claimFirst", "purchaseSecond"}
  /\ run.sign = "resolved"
  /\ run.persist = "rejected"

C10_PersistFailureShownOnce ==
  PersistRejectedAfterSign =>
    /\ Len(run.alerts) = 1
    /\ run.alerts[1].text \notin SuccessTexts
    /\ run.alerts[1].text # ""
    /\ run.signCalls = 1
    /\ run.persistCalls = 1
    /\ claimPc = "idle"
    /\ purchasePc = "idle"

C10_Witness ==
  /\ PersistRejectedAfterSign
  /\ run.handler = "purchaseSecond"
  /\ run.alerts = <<Alert("Transaction error", 0)>>

\* What the user sees once a handler run is over: the alerts in order and
\* the loading flags the controls read.
VisibleOutcome == [alerts |-> run.alerts, disabled |-> isActionLoading]

\* The outcomes a rejected wallet signing call leaves behind.
SignFailureOutcomes ==
  {[alerts |-> <<Alert(MessageOr(err, "Transaction error"), 0)>>, disabled |-> FALSE] :
     err \in Thrown}

\* C11: a partial failure of claim-first or purchase-second (signing
\* succeeded, persistence rejected) leaves the user with an outcome that no
\* rejected signing call leaves: the two failure kinds can be told apart.
C11_PartialFailureDistinct ==
  PersistRejectedAfterSign => VisibleOutcome \notin SignFailureOutcomes

\* The auction is open by the clock: status active and now < ends_at.
AuctionOpen == auction.status = "active" /\ now < auction.ends_at

\* The viewer's address is the seller's wallet address, letter case aside.
ViewerIsSeller ==
  /\ address.t = "string"
  /\ auction.seller.hasUser
  /\ auction.seller.wallet_address.t = "string"
  /\ SameIgnoringCase(address.s, auction.seller.wallet_address.s)

\* C12: on the auction detail page the bid form and the buyout control are
\* on screen only while status is active and now < ends_at.
C12_ControlsOnlyWhileOpen ==
  (AuctionPageView = "detail" /\ ~AuctionOpen) =>
    AuctionControls \cap {"bid-form", "buyout"} = {}

\* C13: the awaiting-close notice is on screen exactly when status is
\* active and now >= ends_at.
C13_AwaitingCloseIffTimeEnded ==
  AuctionPageView = "detail" =>
    ("awaiting-close" \in AuctionNotices
       <=> (auction.status = "active" /\ now >= auction.ends_at))

\* C14: no buyout control is on screen when the auction has no
\* buyout_price, and none when the viewer's address is the seller's wallet
\* address in any letter case.
C14_BuyoutHiddenWithoutPriceAndFromSeller ==
  (AuctionPageView = "detail" /\ (auction.buyout_price = <<>> \/ ViewerIsSeller)) =>
    AuctionControls \cap {"buyout", "connect-to-buyout"} = {}

C14_Witness ==
  /\ AuctionPageView = "detail"
  /\ AuctionOpen
  /\ isConnected
  /\ auction.buyout_price # <<>>
  /\ ViewerIsSeller
  /\ address # auction.seller.wallet_address
  /\ BidBlockRendered
  /\ ~BuyoutBlockRendered

\* C15: while the auction is open and the connected viewer is the seller,
\* no bid form is on screen, and no placeBid request was ever started with
\* the seller's own address.
C15_SellerCannotBid ==
  /\ (AuctionPageView = "detail" /\ AuctionOpen /\ isConnected /\ ViewerIsSeller)
       => ~BidFormRendered
  /\ bidRun.placeBidCalls > 0 =>
       ~(/\ bidRun.seller.hasUser
         /\ SameIgnoringCase(bidRun.walletAddress.s, bidRun.seller.wallet_address.s))

C15_Witness ==
  /\ AuctionPageView = "detail"
  /\ AuctionOpen
  /\ isConnected
  /\ ViewerIsSeller
  /\ AuctionNotices = {"own-auction"}
  /\ bidRun.placeBidCalls > 0

\* C16: a handlePlaceBid call that rejects its input dispatches no placeBid
\* request and changes nothing: bidding stays false and the entered amount
\* is kept.
C16_RejectionChangesNothing ==
  [][(bidRun' # bidRun /\ bidRun'.outcome = "invalid") =>
       /\ bidRun'.placeBidCalls = 0
       /\ ~bidding /\ ~bidding'
       /\ bidAmount' = bidAmount
       /\ bidPc' = bidPc
       /\ currentAuction' = currentAuction
       /\ auctionActionLoading' = auctionActionLoading]_vars

C16_Witness ==
  /\ bidRun.outcome = "invalid"
  /\ Len(bidRun.alerts) = 1
  /\ bidRun.alerts[1].text = "Bid must be at least ${min_price} POL (minimum price)"
  /\ bidAmount = <<0, 4, 9>>
  /\ ~bidding
  /\ bidPc = "idle"

\* The handlers of the gated detail page that are between their start and
\* the settling of their last call.
HandlersInFlight ==
  (IF interestPc # "idle" THEN {"showInterest"} ELSE {})
    \cup (IF claimPc # "idle" THEN {"claimFirst"} ELSE {})
    \cup (IF purchasePc # "idle" THEN {"purchaseSecond"} ELSE {})

\* C17: on the gated detail page at most one of show-interest, claim-first
\* and purchase-second is in flight, and while one is in flight, in its
\* signing phase as in its persistence phase, no acquisition control is
\* enabled.
C17_OneActionInFlight ==
  /\ Cardinality(HandlersInFlight) <= 1
  /\ HandlersInFlight # {} => EnabledAcquisitionControls = {}
  /\ claimPc \in {"idle", "awaitSign", "awaitPersist"}
  /\ purchasePc \in {"idle", "awaitSign", "awaitPersist"}

C17_Witness ==
  /\ claimPc = "awaitSign"
  /\ PageView = "revealed"
  /\ isConnected
  /\ Controls = {"show-interest", "claim-first"}
  /\ EnabledAcquisitionControls = {}

\* C18: right after the pending action of authenticate, seedDemoData or
\* syncIpfsFromPinata, the admin slice holds no error.
C18_PendingClearsError ==
  adminLast \in {"admin/authenticate/pending", "admin/seedDemo/pending",
                 "admin/syncIpfs/pending"}
    => admin.error = {}

\* C19: the admin slice's loading is true exactly while an authenticate,
\* seedDemoData or syncIpfsFromPinata request is in flight.
C19_LoadingIffInFlight == admin.loading <=> LoadingInFlight > 0

\* C20: right after the fulfilled action of authenticate, seedDemoData or
\* syncIpfsFromPinata, the admin slice holds no error.
C20_FulfilledClearsError ==
  adminLast \in {"admin/authenticate/fulfilled", "admin/seedDemo/fulfilled",
                 "admin/syncIpfs/fulfilled"}
    => admin.error = {}

\* The step reduces the admin action of this type for a request.
AdminStep(type) == adminLast' = type /\ adminInFlight' # adminInFlight

\* The step dispatches this many fetchAdminStats and fetchAdminCountries.
AdminRefetches(stats, countries) ==
  /\ adminInFlight'["fetchStats"] = adminInFlight["fetchStats"] + stats
  /\ adminInFlight'["fetchCountries"] = adminInFlight["fetchCountries"] + countries

AdminCacheKept ==
  /\ admin'.stats = admin.stats
  /\ admin'.countries = admin.countries

\* C21: seedDemoData, toggleCountryVisibility and the creation of an
\* auction dispatch the refetch of the affected collection in the step in
\* which the server call succeeds and in no other step of theirs, and no
\* step of theirs changes the cached stats, countries or user flags.
C21_RefetchOnSuccessOnly ==
  [][/\ AdminStep("admin/seedDemo/fulfilled") => AdminRefetches(1, 1) /\ AdminCacheKept
     /\ AdminStep("admin/toggleVisibility/fulfilled")
          => AdminRefetches(0, 1) /\ AdminCacheKept
     /\ \A type \in {"admin/seedDemo/pending", "admin/seedDemo/rejected",
                     "admin/toggleVisibility/pending",
                     "admin/toggleVisibility/rejected"} :
          AdminStep(type) => AdminRefetches(0, 0) /\ AdminCacheKept
     /\ createRun' # createRun =>
          /\ userFlags' = userFlags
          /\ activeAuctions' = activeAuctions
          /\ createRun'.outcome = "fulfilled" =>
               /\ userInFlight' = userInFlight + 1
               /\ auctionsInFlight' = auctionsInFlight + 1
          /\ createRun'.outcome # "fulfilled" =>
               /\ userInFlight' = userInFlight
               /\ auctionsInFlight' = auctionsInFlight]_vars

C21_Witness ==
  /\ createRun.outcome = "fulfilled"
  /\ createRun.refetches = 1
  /\ userInFlight = 1
  /\ userLoading
  /\ userFlags = <<7>>

\* The payloads a fetch thunk can bring for a field of the slice.
FetchPayloads(field) ==
  CASE field = "stats" -> AdminStats
    [] field = "countries" -> AdminCountries
    [] field = "ipfsStatus" -> IpfsStatuses

AdminFieldsBut(field) == (DOMAIN admin) \ {field}

\* C27: the fulfilled step of fetchAdminStats, fetchAdminCountries and
\* fetchIpfsStatus changes its own field of the admin state (stats,
\* countries, ipfsStatus) and no other field, and in every reachable state
\* the responses of two of them give the same state in both arrival orders.
C27_FetchesOwnFieldOnly ==
  /\ [][\A field \in {"stats", "countries", "ipfsStatus"} :
         AdminStep("admin/fetch" \o (CASE field = "stats" -> "Stats"
                                       [] field = "countries" -> "Countries"
                                       [] field = "ipfsStatus" -> "IpfsStatus")
                     \o "/fulfilled")
           => /\ admin'[field] \in {{p} : p \in FetchPayloads(field)}
              /\ \A other \in AdminFieldsBut(field) : admin'[other] = admin[other]]_vars
  /\ [](\A f1, f2 \in {"stats", "countries", "ipfsStatus"} :
          f1 # f2 =>
            \A p1 \in FetchPayloads(f1), p2 \in FetchPayloads(f2) :
              fetchFulfilled(fetchFulfilled(admin, f1, p1), f2, p2)
                = fetchFulfilled(fetchFulfilled(admin, f2, p2), f1, p1))

\* The three fetches of the load-data effect have all been answered.
C27_Witness ==
  /\ admin.authenticated
  /\ admin.stats # {} /\ admin.countries # {} /\ admin.ipfsStatus # {}
  /\ adminLast \in {"admin/fetchStats/fulfilled", "admin/fetchCountries/fulfilled",
                    "admin/fetchIpfsStatus/fulfilled"}
  /\ \A t \in LoadDataFetches : adminInFlight[t] = 0

\* C29: once logged out, the admin state holds no server data: while
\* authenticated is false, adminKey and stats are null and countries is
\* empty, whatever responses arrive.
C29_LoggedOutHoldsNoData ==
  ~admin.authenticated =>
    admin.adminKey = {} /\ admin.stats = {} /\ admin.countries = {}

\* C30: every amount for which handlePlaceBid dispatches placeBid is at least
\* the minimum shown on the bid input at that moment, which is
\* max(min_price, h + 0.001) with h the current highest bid, or the starting
\* price of an auction without bids.
C30_AcceptedAtLeastDisplayedMinimum ==
  bidRun.placeBidCalls > 0 => bidRun.amount >= bidRun.minBidAmount

\* C25: a bid of the history carries the "Highest Bid" marker exactly when
\* its bidder is the highest_bidder_id the server reports; without a
\* reported leader no bid is marked, whatever the amounts and categories.
C25_MarkerFollowsServerLeader ==
  BidHistoryRendered =>
    /\ \A k \in DOMAIN history.bids :
         k \in HighestBidMarkers
           <=> history.bids[k].bidder_id = history.highest_bidder_id
    /\ history.highest_bidder_id = JsNull => HighestBidMarkers = {}

\* The marked bid is the lower one, of the lower category.
C25_Witness ==
  /\ BidHistoryRendered
  /\ Len(history.bids) = 2
  /\ history.highest_bidder_id = Id(<<"1">>)
  /\ history.bids[1] = [bidder_id |-> Id(<<"1">>), amount |-> 50,
                        bidder_category |-> "standard"]
  /\ history.bids[2] = [bidder_id |-> Id(<<"2">>), amount |-> 80,
                        bidder_category |-> "premium"]
  /\ HighestBidMarkers = {1}

\* C28: whenever a handler with a local in-flight flag is not running, its
\* awaited calls having settled with success or with failure, the flag is
\* false: interestLoading, claimLoading, purchaseLoading of the flag page,
\* bidding and buyingOut of the auction page, creating of the profile page.
C28_FlagsFalseOnceSettled ==
  /\ interestPc = "idle" => ~interestLoading
  /\ claimPc = "idle" => ~claimLoading
  /\ purchasePc = "idle" => ~purchaseLoading
  /\ bidPc = "idle" => ~bidding
  /\ buyoutPc = "idle" => ~buyingOut
  /\ createPc = "idle" => ~creating

\* The creation of an auction was refused by the server.
C28_Witness ==
  /\ createRun.outcome = "rejected"
  /\ createRun.postCalls = 1
  /\ createPc = "idle"
  /\ ~creating

\* C26: on the always-revealed page, while a wallet signing of claim-first
\* or of purchase-second is pending its control is disabled, and no more
\* than one signing of the same action is pending.
C26_SigningDisablesControl ==
  \A h \in SigningHandlers :
    /\ signing[h] > 0 => ControlOf(h) \notin EnabledAlwaysRevealedControls
    /\ signing[h] <= 1

\* The decimal product unitPrice * n of a price text, as the double that
\* prints as that decimal.
DecimalTotal(text, n) == ToDouble(parseFloat(text) * n, Pow10(BidDecimals))

\* C23: the price on the purchase-second button and the amount handed to
\* the wallet purchase call are unitPrice * nfts_required, with the
\* discounted price as unitPrice when there is one and flag.price otherwise,
\* and nfts_required 1 when absent.
C23_PurchasePriceIsUnitTimesRequired ==
  \A call \in purchaseCall :
    /\ call.totalPrice
         = DecimalTotal(pricePerNft(call.pricing), nftsRequiredOf(call.pricing))
    /\ PurchaseSecondLabelPrice(call.pricing) = call.totalPrice

\* C24: the base total is price * nfts_required and the discounted total
\* is the discounted price * nfts_required for nfts_required up to MaxNfts,
\* the base total is the same for every discount, and the total of the list
\* card is the base total of the detail page.
C24_TotalsAreProducts ==
  pricing # {} =>
    /\ totalBasePrice(priced) = DecimalTotal(priced.price, nftsRequiredOf(priced))
    /\ totalDiscountedPrice(priced)
         = DecimalTotal(pricePerNft(priced), nftsRequiredOf(priced))
    /\ \A d \in DiscountTexts :
         totalBasePrice([priced EXCEPT !.discountedPrice = d]) = totalBasePrice(priced)
    /\ FlagCardTotalPrice(priced) = totalBasePrice(priced)

====
